---------------------------- MODULE Spec2Model ----------------------------
(***************************************************************************)
(* A model of overnest/strongsalt-common-go: the padded block list         *)
(* (package blocks), the versioned headers (package headers) and the       *)
(* helpers of package tools they rest on.                                  *)
(*                                                                         *)
(* Machine words.  TLC's integers are 32-bit signed, so a Go uint32 cannot *)
(* be held at its full width.  The model keeps every field at its width IN *)
(* BYTES (a uint32 is four bytes, big-endian) and scales the byte itself:  *)
(* a byte has ByteBits bits, so that a uint32 wraps at ByteMod^4.  Every   *)
(* uint32 expression of the source is reduced modulo Uint32Mod.            *)
(***************************************************************************)
EXTENDS Integers, Sequences, FiniteSets, TLC

VARIABLES
    store,    \* the bytes of the backing file (os.File in the tests)
    pos,      \* the file offset of the handle the block list reads/writes through
    phase,    \* "new": nothing constructed; "writing": a writer; "reading": a reader
    bl,       \* the blockListV1 object: paddedBlockSize, curBlock, init/cur/endOffset
    rng,      \* position in the stream of random bytes (crypto/rand)
    written,  \* history: the blocks written successfully, in write order
    pending,  \* caller state: bytes of a rejected record still to be written in chunks
    readLog,  \* history: blocks consumed by sequential reads since open / Reset
    eof,      \* history: the last sequential read returned io.EOF
    ret,      \* the result of the last operation
    lin,      \* history: the result of the last SearchLinear
    arg,      \* the input of a serialization: a block with its padded size, or a header
    buf,      \* the bytes a serialization produced
    out       \* the result of the last serialization / decoding

vars == <<store, pos, phase, bl, rng, written, pending, readLog, eof, ret, lin,
          arg, buf, out>>

----------------------------------------------------------------------------
(* Bounds of the model *)

ByteBits == 3          \* bits per modelled byte
MaxBlocks == 3         \* blocks written to one list in Spec
MaxInitOffset == 2     \* bytes of foreign data in front of an embedded list
MaxSeed == 1           \* seeds of the random byte stream: 0..MaxSeed
MaxSearchBlocks == 4   \* blocks of a sorted list in SpecSearch
SearchPaddedSize == 16 \* paddedBlockSize of the sorted list in SpecSearch
MaxDataLen == 2        \* bytes of data of a block in SpecBlock
MaxBodyLen == 2        \* bytes of body of a header in SpecHdr
MaxListLen == 4        \* length of the lists given to BinarySearchU64
MaxKey == 4            \* largest value of the lists given to BinarySearchU64
MaxTrailLen == 2       \* bytes of content after a header in a stream

ByteMod == 2 ^ ByteBits
Byte == 0 .. (ByteMod - 1)
Uint32Mod == ByteMod * ByteMod * ByteMod * ByteMod
MaxUint32 == Uint32Mod - 1

U32(x) == x % Uint32Mod

Min(a, b) == IF a < b THEN a ELSE b

\* Go's s[lo:hi] on a 1-based TLA+ sequence (0-based, hi exclusive in Go)
Slice(s, lo, hi) == SubSeq(s, lo + 1, hi)

----------------------------------------------------------------------------
(* encoding/binary: binary.BigEndian.PutUint32 / Uint32 *)

PutUint32(v) ==
    << (v \div (ByteMod * ByteMod * ByteMod)) % ByteMod,
       (v \div (ByteMod * ByteMod)) % ByteMod,
       (v \div ByteMod) % ByteMod,
       v % ByteMod >>

Uint32(b) ==
    ((b[1] * ByteMod + b[2]) * ByteMod + b[3]) * ByteMod + b[4]

----------------------------------------------------------------------------
(* package tools: Gzip / Gunzip.                                           *)
(* The gzip container is modelled by its framing: the two identification   *)
(* bytes, the payload, and the trailer (checksum and length of the         *)
(* payload, each reduced to one byte).  Gunzip rejects anything that is    *)
(* not such a frame.                                                       *)

GzipID1 == 31 % ByteMod
GzipID2 == 139 % ByteMod

RECURSIVE SumBytes(_)
SumBytes(s) == IF s = <<>> THEN 0 ELSE (s[1] + SumBytes(Tail(s))) % ByteMod

GzipTrailer(b) == << SumBytes(b), Len(b) % ByteMod >>

Gzip(b) == [err |-> "nil", bytes |-> <<GzipID1, GzipID2>> \o b \o GzipTrailer(b)]

Gunzip(zb) ==
    IF Len(zb) < 4 \/ zb[1] # GzipID1 \/ zb[2] # GzipID2
    THEN [err |-> "gzip: invalid header", bytes |-> <<>>]
    ELSE LET body == SubSeq(zb, 3, Len(zb) - 2)
         IN IF SubSeq(zb, Len(zb) - 1, Len(zb)) # GzipTrailer(body)
            THEN [err |-> "gzip: invalid checksum", bytes |-> <<>>]
            ELSE [err |-> "nil", bytes |-> body]

----------------------------------------------------------------------------
(* package tools: Marshal / Unmarshal (encoding/json) of the record type   *)
(* of the tests, testBlockV1{List []uint64}.  A record is its List; its    *)
(* JSON text is modelled over the scaled byte alphabet: digits in radix    *)
(* JsonRadix, a separator, an opening and a closing bracket.               *)

JsonRadix == ByteMod - 3
JsonComma == ByteMod - 3
JsonOpen == ByteMod - 2
JsonClose == ByteMod - 1

RECURSIVE Digits(_)
Digits(n) == IF n < JsonRadix THEN <<n>>
             ELSE Digits(n \div JsonRadix) \o <<n % JsonRadix>>

RECURSIVE JoinKeys(_)
JoinKeys(list) ==
    IF list = <<>> THEN <<>>
    ELSE IF Len(list) = 1 THEN Digits(list[1])
    ELSE Digits(list[1]) \o <<JsonComma>> \o JoinKeys(Tail(list))

Marshal(rec) == [err |-> "nil", bytes |-> <<JsonOpen>> \o JoinKeys(rec) \o <<JsonClose>>]

NoRec == <<-1>>

\* parse the text between the brackets: acc is the list so far, cur the
\* number being read (-1: no digit read yet, -2: a syntax error)
RECURSIVE ParseKeys(_, _, _)
ParseKeys(s, acc, cur) ==
    IF cur = -2 THEN NoRec
    ELSE IF s = <<>> THEN (IF cur < 0 THEN NoRec ELSE Append(acc, cur))
    ELSE LET c == s[1]
             sep == (c = JsonComma)
             bad == \/ (sep /\ cur < 0)
                    \/ (~sep /\ c >= JsonRadix)
                    \/ (~sep /\ cur = 0)        \* JSON numbers have no leading zero
         IN ParseKeys(Tail(s),
                      IF sep /\ ~bad THEN Append(acc, cur) ELSE acc,
                      IF bad THEN -2
                      ELSE IF sep THEN -1
                      ELSE (IF cur < 0 THEN 0 ELSE cur * JsonRadix) + c)

Unmarshal(data) ==
    IF Len(data) < 2 \/ data[1] # JsonOpen \/ data[Len(data)] # JsonClose
    THEN [err |-> "json: syntax error", rec |-> NoRec]
    ELSE LET inner == SubSeq(data, 2, Len(data) - 1)
             rec == IF inner = <<>> THEN <<>> ELSE ParseKeys(inner, <<>>, -1)
         IN IF rec = NoRec THEN [err |-> "json: syntax error", rec |-> NoRec]
            ELSE [err |-> "nil", rec |-> rec]

----------------------------------------------------------------------------
(* Errors.  A Go error is modelled by its kind and by the number of        *)
(* *errors.Error wrappers (go-errors) around it; a BlockPaddingError also  *)
(* carries its three sizes.                                                *)

NoPadErr == [PaddedBlockSize |-> 0, BlockSize |-> 0, MaxDataSize |-> 0]

Err(kind) == [kind |-> kind, wraps |-> 0, pad |-> NoPadErr]
NilErr == Err("nil")
EOF == Err("EOF")

\* errors.New(err): one more wrapper around an error value
ErrorsNew(e) == [e EXCEPT !.wraps = e.wraps + 1]

NewBlockPaddingError(paddedSize, blockSize, maxDataSize) ==
    [kind |-> "BlockPaddingError", wraps |-> 0,
     pad |-> [PaddedBlockSize |-> paddedSize, BlockSize |-> blockSize,
              MaxDataSize |-> maxDataSize]]

\* the error itself, or the error inside exactly one *errors.Error
IsBlockPaddingError(e) == e.kind = "BlockPaddingError" /\ e.wraps <= 1

----------------------------------------------------------------------------
(* package blocks: constants and blockV1 *)

BlockListV1 == 1
versionLen == 4
padSizeLen == 4
blockListHeaderLen == versionLen + padSizeLen
blockNumLen == 4
blockSizeLen == 4
blockHeaderLen == blockNumLen + blockSizeLen

NoBlock == [id |-> -1, size |-> 0, data |-> <<>>]

newBlock(id, size, data) == [id |-> id, size |-> size, data |-> data]

\* crypto/rand: the k bytes that follow position r of the random stream
RandByte(x) == (3 * x + 1) % ByteMod
RandRead(r, k) == [j \in 1 .. k |-> RandByte(r + j)]

\* Serialize with the size test off by one: a block that fills the padded
\* size exactly is refused
SerializeRefusesExactFit(b, paddedBlockSize, rnd) ==
    IF paddedBlockSize > 0 /\ U32(blockHeaderLen + U32(Len(b.data))) >= paddedBlockSize
    THEN [err |-> NewBlockPaddingError(paddedBlockSize, U32(blockHeaderLen + U32(Len(b.data))),
                                       U32(paddedBlockSize - 8)),
          serial |-> <<>>, drawn |-> 0]
    ELSE [err |-> NilErr,
          serial |-> PutUint32(b.id) \o PutUint32(U32(Len(b.data))) \o b.data
                     \o RandRead(rnd, IF paddedBlockSize > 0
                                      THEN paddedBlockSize - (blockHeaderLen + Len(b.data))
                                      ELSE 0),
          drawn |-> IF paddedBlockSize > 0
                    THEN paddedBlockSize - (blockHeaderLen + Len(b.data)) ELSE 0]

\* blockV1.Serialize: blockID(4) + blockSize(4) + blockData + padding.
\* rnd is the random stream position; the result says how many random
\* bytes were drawn.
Serialize(b, paddedBlockSize, rnd) ==
    LET blockSize == U32(Len(b.data))
        totalSize == U32(blockHeaderLen + blockSize)
        arrayBytes == IF paddedBlockSize > 0 THEN paddedBlockSize ELSE totalSize
        npad == IF paddedBlockSize > 0 /\ arrayBytes > totalSize
                THEN arrayBytes - totalSize ELSE 0
        padding == RandRead(rnd, npad)
        idb == PutUint32(b.id)
        szb == PutUint32(blockSize)
    IN IF paddedBlockSize > 0 /\ totalSize > paddedBlockSize
       THEN [err |-> NewBlockPaddingError(paddedBlockSize, totalSize,
                                           U32(paddedBlockSize - 8)),
             serial |-> <<>>, drawn |-> 0]
       ELSE IF arrayBytes < blockHeaderLen
       THEN [err |-> Err("panic"), serial |-> <<>>, drawn |-> 0]
       ELSE [err |-> NilErr,
             serial |-> [i \in 1 .. arrayBytes |->
                           IF paddedBlockSize > 0 /\ i > totalSize THEN padding[i - totalSize]
                           ELSE IF i <= blockNumLen THEN idb[i]
                           ELSE IF i <= blockHeaderLen THEN szb[i - blockNumLen]
                           ELSE IF i - blockHeaderLen <= Len(b.data)
                                THEN b.data[i - blockHeaderLen]
                           ELSE 0],
             drawn |-> npad]

\* deserialize taking the data up to the end of the bytes, padding included
deserializeKeepsPadding(paddedBlockSize, dataBytes) ==
    IF U32(Len(dataBytes)) < blockHeaderLen
    THEN [err |-> Err("Insufficient data size"), block |-> NoBlock]
    ELSE [err |-> NilErr,
          block |-> newBlock(Uint32(Slice(dataBytes, 0, blockNumLen)),
                             Uint32(Slice(dataBytes, blockNumLen, blockHeaderLen)),
                             Slice(dataBytes, blockHeaderLen, Len(dataBytes)))]

\* blockV1.deserialize
deserialize(paddedBlockSize, dataBytes) ==
    LET totalSize == U32(Len(dataBytes))
    IN IF totalSize < blockHeaderLen
       THEN [err |-> Err("Insufficient data size"), block |-> NoBlock]
       ELSE IF paddedBlockSize > 0 /\ totalSize # paddedBlockSize
       THEN [err |-> Err("Data size does not match padded block size"), block |-> NoBlock]
       ELSE LET id == Uint32(Slice(dataBytes, 0, blockNumLen))
                size == Uint32(Slice(dataBytes, blockNumLen, blockHeaderLen))
                high == U32(blockHeaderLen + size)
            IN IF U32(size + blockHeaderLen) > totalSize
               THEN [err |-> Err("Block size is bigger than the data size"), block |-> NoBlock]
               ELSE IF high < blockHeaderLen \/ high > Len(dataBytes)
               THEN [err |-> Err("panic"), block |-> NoBlock]   \* slice bounds out of range
               ELSE [err |-> NilErr,
                     block |-> newBlock(id, size, Slice(dataBytes, blockHeaderLen, high))]

DeserializeBlockV1(paddedBlockSize, dataBytes) == deserialize(paddedBlockSize, dataBytes)

\* the data of a decoded block as its holder reads it while the buffer it was
\* decoded from holds dataBytes: deserialize makes data the slice
\* dataBytes[blockHeaderLen : blockHeaderLen+size] of the caller's buffer
BlockDataSeen(block, dataBytes) ==
    Slice(dataBytes, blockHeaderLen, blockHeaderLen + block.size)

----------------------------------------------------------------------------
(* The backing store: an os.File.  Read takes up to k bytes at the file    *)
(* offset and reports io.EOF only when it could read none of k > 0 bytes;  *)
(* ReadAt reports io.EOF whenever it read fewer than k bytes.              *)

FileRead(st, ps, k) ==
    LET avail == IF ps < Len(st) THEN Len(st) - ps ELSE 0
        n == Min(k, avail)
    IN [n |-> n, err |-> IF k > 0 /\ n = 0 THEN EOF ELSE NilErr,
        bytes |-> Slice(st, ps, ps + n)]

FileReadAt(st, off, k) ==
    LET avail == IF off < Len(st) THEN Len(st) - off ELSE 0
        n == Min(k, avail)
    IN [n |-> n, err |-> IF n < k THEN EOF ELSE NilErr,
        bytes |-> Slice(st, off, off + n)]

----------------------------------------------------------------------------
(* blockListV1 *)

NilList == [version |-> 0, paddedBlockSize |-> 0, curBlock |-> NoBlock,
            initOffset |-> 0, curOffset |-> 0, endOffset |-> 0, seeker |-> FALSE]

IsBlockPadded(b) == b.paddedBlockSize > 0

GetPaddedBlockSize(b) == b.paddedBlockSize

GetMaxDataSize(b) ==
    IF IsBlockPadded(b) THEN U32(GetPaddedBlockSize(b) - 8) ELSE MaxUint32

\* checkListValid without the test of the span against the padded size
checkListValidAnySpan(b) ==
    IF b.endOffset < b.initOffset
    THEN Err("initial offset bigger than end offset")
    ELSE NilErr

checkListValid(b) ==
    IF b.endOffset < b.initOffset
    THEN Err("initial offset bigger than end offset")
    ELSE IF IsBlockPadded(b) /\ (b.endOffset - b.initOffset) % GetPaddedBlockSize(b) > 0
    THEN Err("block bytes do not divide evenly by padded block size")
    ELSE NilErr

\* GetTotalBlocks answering 0 blocks, without an error, for an unpadded list
GetTotalBlocksUnpaddedZero(b) ==
    IF ~IsBlockPadded(b)
    THEN [n |-> 0, err |-> NilErr]
    ELSE IF checkListValid(b) # NilErr
    THEN [n |-> 0, err |-> checkListValid(b)]
    ELSE [n |-> U32((b.endOffset - b.initOffset) \div GetPaddedBlockSize(b)), err |-> NilErr]

GetTotalBlocks(b) ==
    IF ~IsBlockPadded(b)
    THEN [n |-> 0, err |-> Err("not padded")]
    ELSE IF checkListValid(b) # NilErr
    THEN [n |-> 0, err |-> checkListValid(b)]
    ELSE [n |-> U32((b.endOffset - b.initOffset) \div GetPaddedBlockSize(b)), err |-> NilErr]

GetCurBlock(b) == b.curBlock

\* SerializeBlockData: Marshal, then Gzip in unpadded mode
SerializeBlockData(b, blockData) ==
    LET marshalled == Marshal(blockData)
    IN IF marshalled.err # "nil" THEN [err |-> Err(marshalled.err), bytes |-> <<>>]
       ELSE IF ~IsBlockPadded(b)
       THEN [err |-> NilErr, bytes |-> Gzip(marshalled.bytes).bytes]
       ELSE [err |-> NilErr, bytes |-> marshalled.bytes]

\* deserializeBlockData without the Gunzip of unpadded mode
deserializeBlockDataNoGunzip(b, data) ==
    IF Unmarshal(data).err # "nil"
    THEN [err |-> Err(Unmarshal(data).err), rec |-> NoRec, size |-> 0]
    ELSE [err |-> NilErr, rec |-> Unmarshal(data).rec, size |-> Len(data)]

\* deserializeBlockData: Gunzip in unpadded mode, then Unmarshal
deserializeBlockData(b, data) ==
    LET unz == IF ~IsBlockPadded(b) THEN Gunzip(data) ELSE [err |-> "nil", bytes |-> data]
    IN IF unz.err # "nil" THEN [err |-> Err(unz.err), rec |-> NoRec, size |-> 0]
       ELSE LET u == Unmarshal(unz.bytes)
            IN IF u.err # "nil" THEN [err |-> Err(u.err), rec |-> NoRec, size |-> 0]
               ELSE [err |-> NilErr, rec |-> u.rec, size |-> Len(unz.bytes)]

\* writeBlock giving the block the id of the current block, not the next one
writeBlockRepeatsId(b, block, st, rnd) ==
    IF Serialize(block, GetPaddedBlockSize(b), rnd).err # NilErr
    THEN [err |-> ErrorsNew(Serialize(block, GetPaddedBlockSize(b), rnd).err),
          block |-> block, bl |-> b, store |-> st, rng |-> rnd]
    ELSE [err |-> NilErr,
          block |-> [block EXCEPT !.id = IF GetCurBlock(b) # NoBlock
                                         THEN GetCurBlock(b).id ELSE 0],
          bl |-> [b EXCEPT !.curOffset = b.curOffset
                                         + Len(Serialize(block, GetPaddedBlockSize(b), rnd).serial),
                           !.endOffset = b.curOffset
                                         + Len(Serialize(block, GetPaddedBlockSize(b), rnd).serial),
                           !.curBlock = [block EXCEPT !.id = IF GetCurBlock(b) # NoBlock
                                                             THEN GetCurBlock(b).id ELSE 0]],
          store |-> st \o Serialize([block EXCEPT !.id = IF GetCurBlock(b) # NoBlock
                                                         THEN GetCurBlock(b).id ELSE 0],
                                    GetPaddedBlockSize(b), rnd).serial,
          rng |-> rnd + Serialize(block, GetPaddedBlockSize(b), rnd).drawn]

\* writeBlock making the refused block the current block
writeBlockKeepsRefused(b, block, st, rnd) ==
    IF Serialize(block, GetPaddedBlockSize(b), rnd).err # NilErr
    THEN [err |-> ErrorsNew(Serialize(block, GetPaddedBlockSize(b), rnd).err),
          block |-> block, bl |-> [b EXCEPT !.curBlock = block], store |-> st, rng |-> rnd]
    ELSE [err |-> NilErr, block |-> block,
          bl |-> [b EXCEPT !.curOffset = b.curOffset
                                         + Len(Serialize(block, GetPaddedBlockSize(b), rnd).serial),
                           !.endOffset = b.curOffset
                                         + Len(Serialize(block, GetPaddedBlockSize(b), rnd).serial),
                           !.curBlock = block],
          store |-> st \o Serialize(block, GetPaddedBlockSize(b), rnd).serial,
          rng |-> rnd + Serialize(block, GetPaddedBlockSize(b), rnd).drawn]

\* writeBlock moving curOffset but leaving endOffset where it was
writeBlockStaleEndOffset(b, block, st, rnd) ==
    IF Serialize(block, GetPaddedBlockSize(b), rnd).err # NilErr
    THEN [err |-> ErrorsNew(Serialize(block, GetPaddedBlockSize(b), rnd).err),
          block |-> block, bl |-> b, store |-> st, rng |-> rnd]
    ELSE [err |-> NilErr, block |-> block,
          bl |-> [b EXCEPT !.curOffset = b.curOffset
                                         + Len(Serialize(block, GetPaddedBlockSize(b), rnd).serial),
                           !.curBlock = block],
          store |-> st \o Serialize(block, GetPaddedBlockSize(b), rnd).serial,
          rng |-> rnd + Serialize(block, GetPaddedBlockSize(b), rnd).drawn]

\* writeBlock: the block gets the id that follows the current block's,
\* is serialized and written whole; only then the offsets and curBlock move.
\* Result: the error, the list, the store and the random stream afterwards.
writeBlock(b, block, st, rnd) ==
    LET blockv1 == IF GetCurBlock(b) # NoBlock
                   THEN [block EXCEPT !.id = U32(GetCurBlock(b).id + 1)]
                   ELSE block
        s == Serialize(blockv1, GetPaddedBlockSize(b), rnd)
        n == Len(s.serial)
    IN IF s.err # NilErr
       THEN [err |-> ErrorsNew(s.err), block |-> blockv1, bl |-> b, store |-> st, rng |-> rnd]
       ELSE [err |-> NilErr, block |-> blockv1,
             bl |-> [b EXCEPT !.curOffset = b.curOffset + n,
                              !.endOffset = b.curOffset + n,
                              !.curBlock = blockv1],
             store |-> st \o s.serial,
             rng |-> rnd + s.drawn]

\* writeBlockDataBytes (WriteBlockData(data []byte) of the earlier API)
writeBlockDataBytes(b, data, st, rnd) ==
    LET block == newBlock(IF GetCurBlock(b) # NoBlock THEN U32(GetCurBlock(b).id + 1) ELSE 0,
                          U32(Len(data)), data)
    IN writeBlock(b, block, st, rnd)

\* WriteBlockData(blockData interface{})
WriteBlockData(b, blockData, st, rnd) ==
    LET d == SerializeBlockData(b, blockData)
    IN IF d.err # NilErr
       THEN [err |-> d.err, block |-> NoBlock, bl |-> b, store |-> st, rng |-> rnd]
       ELSE writeBlockDataBytes(b, d.bytes, st, rnd)

\* NewBlockListReaderV1: reads the 8-byte list header at the file offset.
\* (The store of the model is a file: it is an io.Reader, io.Seeker and
\* io.ReaderAt, so the capability checks pass.)
NewBlockListReaderV1(st, ps, initOffset, endOffset) ==
    LET rv == FileRead(st, ps, versionLen)
        rp == FileRead(st, ps + rv.n, padSizeLen)
        b == [version |-> Uint32(rv.bytes), paddedBlockSize |-> Uint32(rp.bytes),
              curBlock |-> NoBlock, initOffset |-> initOffset + versionLen + padSizeLen,
              curOffset |-> initOffset + versionLen + padSizeLen, endOffset |-> endOffset,
              seeker |-> TRUE]
    IN IF rv.err # NilErr THEN [err |-> ErrorsNew(rv.err), bl |-> NilList, pos |-> ps + rv.n]
       ELSE IF rv.n # versionLen
       THEN [err |-> Err("Can not read version data"), bl |-> NilList, pos |-> ps + rv.n]
       ELSE IF rp.err # NilErr
       THEN [err |-> ErrorsNew(rp.err), bl |-> NilList, pos |-> ps + rv.n + rp.n]
       ELSE IF rp.n # padSizeLen
       THEN [err |-> Err("Can not read padded block size data"), bl |-> NilList,
             pos |-> ps + rv.n + rp.n]
       ELSE IF IsBlockPadded(b) /\ endOffset < 1
       THEN [err |-> Err("endOffset must be > 0"), bl |-> NilList, pos |-> ps + rv.n + rp.n]
       ELSE [err |-> NilErr, bl |-> b, pos |-> ps + rv.n + rp.n]

\* the result of a read that failed before a block was decoded
readFailed(b, e, ps) ==
    [err |-> e, block |-> NoBlock, rec |-> NoRec, size |-> 0, bl |-> b, pos |-> ps]

\* what readNextBlock does once the bytes of the block are in hand (d is the
\* decoded block): the id must follow the current block's
acceptNextBlock(b, d, n, ps) ==
    IF d.err # NilErr THEN readFailed(b, d.err, ps)
    ELSE IF GetCurBlock(b) # NoBlock /\ d.block.id # U32(GetCurBlock(b).id + 1)
    THEN readFailed(b, Err("next block ID does not follow"), ps)
    ELSE [err |-> NilErr, block |-> d.block, rec |-> NoRec, size |-> 0,
          bl |-> [b EXCEPT !.curOffset = b.curOffset + n, !.curBlock = d.block],
          pos |-> ps]

\* one reader.Read of want bytes, r its result: io.EOF is passed on as it is,
\* any other error is wrapped, a short read is an error
readError(r, want) ==
    IF r.err # NilErr THEN (IF r.err = EOF THEN EOF ELSE ErrorsNew(r.err))
    ELSE IF r.n # want THEN Err("short read")
    ELSE NilErr

\* readNextBlock, unpadded mode, after the 8-byte block header h was read:
\* d is the read of the blockSize data bytes
readNextData(b, h, d, blockSize, ps) ==
    IF readError(d, blockSize) # NilErr
    THEN readFailed(b, readError(d, blockSize), ps + h.n + d.n)
    ELSE acceptNextBlock(b, DeserializeBlockV1(GetPaddedBlockSize(b), h.bytes \o d.bytes),
                         h.n + d.n, ps + h.n + d.n)

\* r is the first read of readNextBlock: the whole block in padded mode, the
\* block header otherwise
readNextFrom(b, st, ps, r, want) ==
    IF readError(r, want) # NilErr THEN readFailed(b, readError(r, want), ps + r.n)
    ELSE IF IsBlockPadded(b)
    THEN acceptNextBlock(b, DeserializeBlockV1(GetPaddedBlockSize(b), r.bytes),
                         r.n, ps + r.n)
    ELSE readNextData(b, r,
                      FileRead(st, ps + r.n, Uint32(Slice(r.bytes, blockNumLen, blockHeaderLen))),
                      Uint32(Slice(r.bytes, blockNumLen, blockHeaderLen)), ps)

readNextBlock(b, st, ps) ==
    IF IsBlockPadded(b)
    THEN readNextFrom(b, st, ps, FileRead(st, ps, GetPaddedBlockSize(b)), GetPaddedBlockSize(b))
    ELSE readNextFrom(b, st, ps, FileRead(st, ps, blockHeaderLen), blockHeaderLen)

\* the second half of ReadNextBlockData and of ReadBlockDataAt: r is the
\* result of the block read, d the decoded data
withDecoded(r, d) ==
    IF d.err # NilErr THEN [r EXCEPT !.err = d.err]
    ELSE [r EXCEPT !.rec = d.rec, !.size = d.size]

withBlockData(b, r) ==
    IF r.err # NilErr THEN r
    ELSE IF Len(r.block.data) = 0 THEN [r EXCEPT !.err = Err("invalid blockData")]
    ELSE withDecoded(r, deserializeBlockData(b, r.block.data))

\* ReadNextBlockData: readNextBlock, then the record is decoded from the data.
\* (On a decoding error the result keeps the block that readNextBlock consumed.)
ReadNextBlockData(b, st, ps) == withBlockData(b, readNextBlock(b, st, ps))

\* readBlockAt, after the positioned read r
readBlockFrom(b, index, r, d) ==
    IF r.err # NilErr
    THEN readFailed(b, IF r.err = EOF THEN EOF ELSE ErrorsNew(r.err), 0)
    ELSE IF r.n # GetPaddedBlockSize(b) THEN readFailed(b, Err("short read"), 0)
    ELSE IF d.err # NilErr THEN readFailed(b, d.err, 0)
    ELSE IF d.block.id # index
    THEN readFailed(b, Err("Block ID does not match the retrieval index"), 0)
    ELSE [err |-> NilErr, block |-> d.block, rec |-> NoRec, size |-> 0, bl |-> b, pos |-> 0]

\* readBlockAt reading at paddedBlockSize * index, initOffset forgotten
readBlockAtFromZero(b, st, index) ==
    IF ~IsBlockPadded(b) THEN readFailed(b, Err("not padded"), 0)
    ELSE readBlockFrom(b, index,
            FileReadAt(st, GetPaddedBlockSize(b) * index, GetPaddedBlockSize(b)),
            DeserializeBlockV1(GetPaddedBlockSize(b),
               FileReadAt(st, GetPaddedBlockSize(b) * index, GetPaddedBlockSize(b)).bytes))

\* readBlockAt taking the list to start at the start of the file
readBlockAtFromFileStart(b, st, index) ==
    IF ~IsBlockPadded(b) THEN readFailed(b, Err("not padded"), 0)
    ELSE readBlockFrom(b, index,
            FileReadAt(st, blockListHeaderLen + GetPaddedBlockSize(b) * index,
                       GetPaddedBlockSize(b)),
            DeserializeBlockV1(GetPaddedBlockSize(b),
               FileReadAt(st, blockListHeaderLen + GetPaddedBlockSize(b) * index,
                          GetPaddedBlockSize(b)).bytes))

\* readBlockAt making the block it read the current block of the list
readBlockAtMovesCursor(b, st, index) ==
    IF ~IsBlockPadded(b) THEN readFailed(b, Err("not padded"), 0)
    ELSE LET r == readBlockFrom(b, index,
                     FileReadAt(st, b.initOffset + GetPaddedBlockSize(b) * index,
                                GetPaddedBlockSize(b)),
                     DeserializeBlockV1(GetPaddedBlockSize(b),
                        FileReadAt(st, b.initOffset + GetPaddedBlockSize(b) * index,
                                   GetPaddedBlockSize(b)).bytes))
         IN IF r.err = NilErr THEN [r EXCEPT !.bl.curBlock = r.block] ELSE r

\* readBlockAt: a positioned read at initOffset + paddedBlockSize * index; the
\* list object is not changed (bl of the result is b; pos is not used, a
\* positioned read leaves the offset of the file handle alone)
readBlockAt(b, st, index) ==
    IF ~IsBlockPadded(b) THEN readFailed(b, Err("not padded"), 0)
    ELSE readBlockFrom(b, index,
            FileReadAt(st, b.initOffset + GetPaddedBlockSize(b) * index, GetPaddedBlockSize(b)),
            DeserializeBlockV1(GetPaddedBlockSize(b),
               FileReadAt(st, b.initOffset + GetPaddedBlockSize(b) * index,
                          GetPaddedBlockSize(b)).bytes))

\* ReadBlockDataAt
ReadBlockDataAt(b, st, index) == withBlockData(b, readBlockAt(b, st, index))

\* Reset that forgets the current block and leaves curOffset where it is
ResetKeepsOffset(b, ps) ==
    IF b.seeker
    THEN [err |-> NilErr, bl |-> [b EXCEPT !.curBlock = NoBlock], pos |-> b.initOffset]
    ELSE [err |-> Err("Seeker interface not implemented"), bl |-> b, pos |-> ps]

\* Reset: with a seeker (the reader constructor stores the file as one, the
\* writer constructor stores none), seek to initOffset and forget the current
\* block; without one, an error.  ps is the offset of the file handle
Reset(b, ps) ==
    IF b.seeker
    THEN [err |-> NilErr, bl |-> [b EXCEPT !.curBlock = NoBlock, !.curOffset = b.initOffset],
          pos |-> b.initOffset]
    ELSE [err |-> Err("Seeker interface not implemented"), bl |-> b, pos |-> ps]

----------------------------------------------------------------------------
(* Searching.  The comparator is the caller's; the model uses the one of   *)
(* the test suite, BlockTestComparator, on a record's sorted List.         *)

BlockTestComparator(val, rec) ==
    IF val < rec[1] THEN -1
    ELSE IF val > rec[Len(rec)] THEN 2
    ELSE IF \E i \in 1 .. Len(rec) : rec[i] = val THEN 1
    ELSE 0

searchResult(e, r, found, log, atEOF) ==
    [err |-> e, rec |-> IF found THEN r.rec ELSE NoRec, size |-> IF found THEN r.size ELSE 0,
     bl |-> r.bl, pos |-> r.pos, log |-> log, eof |-> atEOF, probes |-> <<>>]

\* the blocks consumed so far, with the one of the read r
logged(log, r) ==
    IF r.block # NoBlock
    THEN Append(log, [block |-> r.block, rec |-> r.rec, via |-> "ReadNextBlockData"])
    ELSE log

\* the loop of SearchLinear, after the Reset: r is the result of the
\* ReadNextBlockData of this iteration, log the blocks consumed before it
RECURSIVE SearchLinearLoop(_, _, _, _)
SearchLinearLoop(st, value, r, log) ==
    IF r.err = EOF THEN searchResult(NilErr, r, FALSE, logged(log, r), TRUE)
    ELSE IF r.err # NilErr THEN searchResult(ErrorsNew(r.err), r, FALSE, logged(log, r), FALSE)
    ELSE IF BlockTestComparator(value, r.rec) = 1
    THEN searchResult(NilErr, r, TRUE, logged(log, r), FALSE)
    ELSE SearchLinearLoop(st, value, ReadNextBlockData(r.bl, st, r.pos), logged(log, r))

\* a linear search that starts at the cursor instead of resetting
SearchLinearNoReset(b, st, ps, value) ==
    SearchLinearLoop(st, value, ReadNextBlockData(b, st, ps), <<>>)

SearchLinear(b, st, ps, value) ==
    IF Reset(b, ps).err # NilErr
    THEN searchResult(Reset(b, ps).err, readFailed(b, Reset(b, ps).err, ps), FALSE, <<>>, FALSE)
    ELSE SearchLinearLoop(st, value,
                          ReadNextBlockData(Reset(b, ps).bl, st, Reset(b, ps).pos), <<>>)

probeResult(e, r, found, probes) ==
    [err |-> e, rec |-> IF found THEN r.rec ELSE NoRec, size |-> IF found THEN r.size ELSE 0,
     probes |-> probes]

\* the loop of SearchBinary: r is the result of ReadBlockDataAt(mid), probes
\* the indices passed to ReadBlockDataAt so far, mid included
RECURSIVE SearchBinaryStep(_, _, _, _, _, _)
\* a loop body that narrows to mid - 1 and mid + 1 without comparing mid with
\* the ends of the interval
SearchBinaryLoopUnguarded(b, st, value, left, right, mid, r, probes) ==
    IF r.err # NilErr THEN probeResult(ErrorsNew(r.err), r, FALSE, probes)
    ELSE IF BlockTestComparator(value, r.rec) = 1 THEN probeResult(NilErr, r, TRUE, probes)
    ELSE IF BlockTestComparator(value, r.rec) = 0 THEN probeResult(NilErr, r, FALSE, probes)
    ELSE IF left = right THEN probeResult(NilErr, r, FALSE, probes)
    ELSE SearchBinaryStep(b, st, value,
            IF BlockTestComparator(value, r.rec) < 0 THEN left ELSE U32(mid + 1),
            IF BlockTestComparator(value, r.rec) < 0 THEN U32(mid - 1) ELSE right,
            probes)

\* a loop body that goes on to the right after a comparator result of 0
SearchBinaryLoopZeroGoesOn(b, st, value, left, right, mid, r, probes) ==
    IF r.err # NilErr THEN probeResult(ErrorsNew(r.err), r, FALSE, probes)
    ELSE IF BlockTestComparator(value, r.rec) = 1 THEN probeResult(NilErr, r, TRUE, probes)
    ELSE IF left = right THEN probeResult(NilErr, r, FALSE, probes)
    ELSE SearchBinaryStep(b, st, value,
            IF BlockTestComparator(value, r.rec) < 0 THEN left
            ELSE (IF mid < right THEN U32(mid + 1) ELSE right),
            IF BlockTestComparator(value, r.rec) < 0
            THEN (IF mid > left THEN U32(mid - 1) ELSE left)
            ELSE right,
            probes)

SearchBinaryLoop(b, st, value, left, right, mid, r, probes) ==
    IF r.err # NilErr THEN probeResult(ErrorsNew(r.err), r, FALSE, probes)
    ELSE IF BlockTestComparator(value, r.rec) = 1 THEN probeResult(NilErr, r, TRUE, probes)
    ELSE IF BlockTestComparator(value, r.rec) = 0 THEN probeResult(NilErr, r, FALSE, probes)
    ELSE IF left = right THEN probeResult(NilErr, r, FALSE, probes)
    ELSE SearchBinaryStep(b, st, value,
            IF BlockTestComparator(value, r.rec) < 0 THEN left
            ELSE (IF mid < right THEN U32(mid + 1) ELSE right),
            IF BlockTestComparator(value, r.rec) < 0
            THEN (IF mid > left THEN U32(mid - 1) ELSE left)
            ELSE right,
            probes)

\* an iteration that probes the left end of the interval instead of its middle
SearchBinaryStepAtLeft(b, st, value, left, right, probes) ==
    SearchBinaryLoop(b, st, value, left, right, left,
                     ReadBlockDataAt(b, st, left), Append(probes, left))

\* one iteration: mid := (left + right) / 2, then ReadBlockDataAt(mid)
SearchBinaryStep(b, st, value, left, right, probes) ==
    SearchBinaryLoop(b, st, value, left, right, U32(left + right) \div 2,
                     ReadBlockDataAt(b, st, U32(left + right) \div 2),
                     Append(probes, U32(left + right) \div 2))

\* SearchBinary: left := 0, right := GetTotalBlocks() - 1 (uint32)
SearchBinary(b, st, value) ==
    IF GetTotalBlocks(b).err # NilErr
    THEN [err |-> ErrorsNew(GetTotalBlocks(b).err), rec |-> NoRec, size |-> 0,
          probes |-> <<>>]
    ELSE SearchBinaryStep(b, st, value, 0, U32(GetTotalBlocks(b).n - 1), <<>>)

\* NewBlockListWriterV1: writes the list header at the file offset, which the
\* caller has put at initOffset
NewBlockListWriterV1(st, paddedBlockSize, initOffset) ==
    [err |-> NilErr,
     bl |-> [version |-> BlockListV1, paddedBlockSize |-> paddedBlockSize,
             curBlock |-> NoBlock,
             initOffset |-> initOffset + versionLen + padSizeLen,
             curOffset |-> initOffset + versionLen + padSizeLen,
             endOffset |-> initOffset + versionLen + padSizeLen,
             seeker |-> FALSE],
     store |-> st \o PutUint32(BlockListV1) \o PutUint32(paddedBlockSize)]

----------------------------------------------------------------------------
(* package headers: the versioned plaintext and ciphertext headers.        *)
(* A header is a record; a decoder's result carries complete, parsedBytes, *)
(* the header as far as it was filled in, and the error.                   *)

HeaderTypeJSON == 1
HeaderTypeJSONGzip == 2
HeaderTypeBSON == 3
HeaderTypeBSONGzip == 4

HeaderTypes == {HeaderTypeJSON, HeaderTypeJSONGzip, HeaderTypeBSON, HeaderTypeBSONGzip}

PlainHeaderV1 == 1
CipherHeaderV1 == 1

\* the 32-bit constant 1879785779, at the width of the model's uint32
CipherHdrV1Prime == 1879785779 % Uint32Mod

IsGzipped(t) == t = HeaderTypeJSONGzip \/ t = HeaderTypeBSONGzip

\* a header object before any field is set (Prime is 0 in a plaintext header)
NoHeader == [Version |-> 0, Prime |-> 0, HdrType |-> 0, HdrLen |-> 0, HdrBody |-> <<>>]

CreatePlainHdr(hdrType, hdrBody) ==
    [Version |-> PlainHeaderV1, Prime |-> 0, HdrType |-> hdrType,
     HdrLen |-> U32(Len(hdrBody)), HdrBody |-> hdrBody]

CreateCipherHdr(hdrType, hdrBody) ==
    [Version |-> CipherHeaderV1, Prime |-> CipherHdrV1Prime, HdrType |-> hdrType,
     HdrLen |-> U32(Len(hdrBody)), HdrBody |-> hdrBody]

\* the body as it is stored: gzipped for the two gzip types
storedBody(h) == IF IsGzipped(h.HdrType) THEN Gzip(h.HdrBody).bytes ELSE h.HdrBody

\* PlainHdrV1.Serialize: version(4) hdrtype(4) hdrlen(4) body(hdrlen)
PlainHdrV1Serialize(h) ==
    [err |-> NilErr,
     bytes |-> PutUint32(h.Version) \o PutUint32(U32(h.HdrType))
               \o PutUint32(U32(Len(storedBody(h)))) \o storedBody(h)]

\* CipherHdrV1.Serialize: version(4) prime(4) hdrtype(4) hdrlen(4) body(hdrlen)
CipherHdrV1Serialize(h) ==
    [err |-> NilErr,
     bytes |-> PutUint32(h.Version) \o PutUint32(h.Prime) \o PutUint32(U32(h.HdrType))
               \o PutUint32(U32(Len(storedBody(h)))) \o storedBody(h)]

decoded(complete, parsedBytes, header, e) ==
    [complete |-> complete, parsedBytes |-> parsedBytes, header |-> header, err |-> e]

\* the tail of deserialize leaving HdrLen at the stored (compressed) length
deserializeBodyStoredLen(h, b, fixed) ==
    IF U32(Len(b)) < U32(fixed + h.HdrLen)
    THEN decoded(FALSE, fixed, h, NilErr)
    ELSE IF ~IsGzipped(h.HdrType)
    THEN decoded(TRUE, U32(fixed + h.HdrLen),
                 [h EXCEPT !.HdrBody = Slice(b, fixed, U32(fixed + h.HdrLen))], NilErr)
    ELSE decoded(TRUE, U32(fixed + h.HdrLen),
                 [h EXCEPT !.HdrBody = Gunzip(Slice(b, fixed, U32(fixed + h.HdrLen))).bytes],
                 NilErr)

\* the tail of deserialize taking the rest of the buffer as the body
deserializeBodyToEnd(h, b, fixed) ==
    IF U32(Len(b)) < U32(fixed + h.HdrLen)
    THEN decoded(FALSE, fixed, h, NilErr)
    ELSE IF ~IsGzipped(h.HdrType)
    THEN decoded(TRUE, U32(Len(b)), [h EXCEPT !.HdrBody = Slice(b, fixed, Len(b))], NilErr)
    ELSE IF Gunzip(Slice(b, fixed, Len(b))).err # "nil"
    THEN decoded(FALSE, U32(Len(b)), [h EXCEPT !.HdrBody = Slice(b, fixed, Len(b))],
                 ErrorsNew(Err(Gunzip(Slice(b, fixed, Len(b))).err)))
    ELSE decoded(TRUE, U32(Len(b)),
                 [h EXCEPT !.HdrLen = U32(Len(Gunzip(Slice(b, fixed, Len(b))).bytes)),
                           !.HdrBody = Gunzip(Slice(b, fixed, Len(b))).bytes],
                 NilErr)

\* the tail of both deserialize methods: h holds the fixed fields, fixed is
\* the length of the fixed prefix (parsedBytes so far), b the buffer
deserializeBody(h, b, fixed) ==
    IF U32(Len(b)) < U32(fixed + h.HdrLen)
    THEN decoded(FALSE, fixed, h, NilErr)
    ELSE IF U32(fixed + h.HdrLen) < fixed \/ U32(fixed + h.HdrLen) > Len(b)
    THEN decoded(FALSE, fixed, h, Err("panic"))          \* slice bounds out of range
    ELSE IF ~IsGzipped(h.HdrType)
    THEN decoded(TRUE, U32(fixed + h.HdrLen),
                 [h EXCEPT !.HdrBody = Slice(b, fixed, U32(fixed + h.HdrLen))], NilErr)
    ELSE IF Gunzip(Slice(b, fixed, U32(fixed + h.HdrLen))).err # "nil"
    THEN decoded(FALSE, U32(fixed + h.HdrLen),
                 [h EXCEPT !.HdrBody = Slice(b, fixed, U32(fixed + h.HdrLen))],
                 ErrorsNew(Err(Gunzip(Slice(b, fixed, U32(fixed + h.HdrLen))).err)))
    ELSE decoded(TRUE, U32(fixed + h.HdrLen),
                 [h EXCEPT !.HdrLen = U32(Len(Gunzip(Slice(b, fixed, U32(fixed + h.HdrLen))).bytes)),
                           !.HdrBody = Gunzip(Slice(b, fixed, U32(fixed + h.HdrLen))).bytes],
                 NilErr)

\* a decoder that reports a buffer shorter than the fixed prefix as an error
PlainHdrV1deserializeShortIsError(b) ==
    IF Len(b) < 12 THEN decoded(FALSE, 0, NoHeader, Err("buffer too short"))
    ELSE deserializeBody([NoHeader EXCEPT !.Version = Uint32(Slice(b, 0, 4)),
                                          !.HdrType = Uint32(Slice(b, 4, 8)),
                                          !.HdrLen = Uint32(Slice(b, 8, 12))],
                         b, 12)

\* PlainHdrV1.deserialize
PlainHdrV1deserialize(b) ==
    IF Len(b) < 12 THEN decoded(FALSE, 0, NoHeader, NilErr)
    ELSE deserializeBody([NoHeader EXCEPT !.Version = Uint32(Slice(b, 0, 4)),
                                          !.HdrType = Uint32(Slice(b, 4, 8)),
                                          !.HdrLen = Uint32(Slice(b, 8, 12))],
                         b, 12)

\* a decoder that does not compare the prime
CipherHdrV1deserializeAnyPrime(b) ==
    IF Len(b) < 16 THEN decoded(FALSE, 0, NoHeader, NilErr)
    ELSE deserializeBody([NoHeader EXCEPT !.Version = Uint32(Slice(b, 0, 4)),
                                          !.Prime = Uint32(Slice(b, 4, 8)),
                                          !.HdrType = Uint32(Slice(b, 8, 12)),
                                          !.HdrLen = Uint32(Slice(b, 12, 16))],
                         b, 16)

\* CipherHdrV1.deserialize
CipherHdrV1deserialize(b) ==
    IF Len(b) < 16 THEN decoded(FALSE, 0, NoHeader, NilErr)
    ELSE IF Uint32(Slice(b, 4, 8)) # CipherHdrV1Prime
    THEN decoded(FALSE, 8, [NoHeader EXCEPT !.Version = Uint32(Slice(b, 0, 4)),
                                            !.Prime = Uint32(Slice(b, 4, 8))],
                 Err("Prime number does not match"))
    ELSE deserializeBody([NoHeader EXCEPT !.Version = Uint32(Slice(b, 0, 4)),
                                          !.Prime = Uint32(Slice(b, 4, 8)),
                                          !.HdrType = Uint32(Slice(b, 8, 12)),
                                          !.HdrLen = Uint32(Slice(b, 12, 16))],
                         b, 16)

DeserializePlainHdrV1(b) == PlainHdrV1deserialize(b)

DeserializeCipherHdrV1(b) == CipherHdrV1deserialize(b)

\* the body of a decoded header h as its holder reads it while the buffer it
\* was decoded from holds b: deserialize makes HdrBody the slice
\* b[fixed : fixed+HdrLen] of the caller's buffer, and replaces it by the
\* buffer Gunzip allocated only for the gzipped types
HdrBodySeen(h, b, fixed) ==
    IF IsGzipped(h.HdrType) THEN h.HdrBody
    ELSE Slice(b, fixed, fixed + h.HdrLen)

\* DeserializePlainHdr: dispatch on the version field
DeserializePlainHdr(b) ==
    IF Len(b) < 4 THEN decoded(FALSE, 0, NoHeader, NilErr)
    ELSE IF Uint32(Slice(b, 0, 4)) = PlainHeaderV1 THEN DeserializePlainHdrV1(b)
    ELSE decoded(FALSE, 4, NoHeader, Err("Version is not supported"))

\* DeserializeCipherHdr: dispatch on the version field
DeserializeCipherHdr(b) ==
    IF Len(b) < 4 THEN decoded(FALSE, 0, NoHeader, NilErr)
    ELSE IF Uint32(Slice(b, 0, 4)) = CipherHeaderV1 THEN DeserializeCipherHdrV1(b)
    ELSE decoded(FALSE, 4, NoHeader, Err("Version is not supported"))

\* binary.Read of one big-endian uint32 from the source at position ps: it
\* reads 4 bytes in full, reports io.EOF when none is left and
\* io.ErrUnexpectedEOF when fewer than 4 are
binaryRead(st, ps) ==
    [err |-> IF FileRead(st, ps, 4).n = 4 THEN NilErr
             ELSE IF FileRead(st, ps, 4).n = 0 THEN EOF
             ELSE Err("unexpected EOF"),
     val |-> IF FileRead(st, ps, 4).n = 4 THEN Uint32(FileRead(st, ps, 4).bytes) ELSE 0,
     pos |-> ps + FileRead(st, ps, 4).n]

\* the result of a stream decoder: the header (NoHeader for nil), the bytes
\* counted as parsed, the error, and the position the source is left at
streamed(header, parsed, e, ps) ==
    [header |-> header, parsed |-> parsed, err |-> e, pos |-> ps]

\* the tail of both V1 stream decoders: h holds the fixed fields, rd is the
\* result of the single reader.Read(header.HdrBody) into the buffer
\* make([]byte, header.HdrLen), ps the position before it
streamBody(h, rd, ps, parsed) ==
    IF rd.n # h.HdrLen
    THEN streamed([h EXCEPT !.HdrBody = [i \in 1 .. h.HdrLen |->
                                           IF i <= rd.n THEN rd.bytes[i] ELSE 0]],
                  parsed,
                  Err("Read bytes for header body but expected"), ps + rd.n)
    ELSE IF ~IsGzipped(h.HdrType)
    THEN streamed([h EXCEPT !.HdrBody = rd.bytes], U32(parsed + rd.n), NilErr, ps + rd.n)
    ELSE IF Gunzip(rd.bytes).err # "nil"
    THEN streamed([h EXCEPT !.HdrBody = rd.bytes], U32(parsed + rd.n),
                  ErrorsNew(Err(Gunzip(rd.bytes).err)), ps + rd.n)
    ELSE streamed([h EXCEPT !.HdrLen = U32(Len(Gunzip(rd.bytes).bytes)),
                            !.HdrBody = Gunzip(rd.bytes).bytes],
                  U32(parsed + rd.n), NilErr, ps + rd.n)

plainStreamLen(st, t, l) ==
    IF l.err # NilErr
    THEN streamed(NoHeader, 4, ErrorsNew(l.err), l.pos)
    ELSE streamBody([NoHeader EXCEPT !.Version = PlainHeaderV1, !.HdrType = t.val,
                                     !.HdrLen = l.val],
                    FileRead(st, l.pos, l.val), l.pos, 8)

plainStreamType(st, t) ==
    IF t.err # NilErr
    THEN streamed(NoHeader, 0, ErrorsNew(t.err), t.pos)
    ELSE plainStreamLen(st, t, binaryRead(st, t.pos))

\* DeserializePlainHdrStreamV1: the source is positioned after the version
DeserializePlainHdrStreamV1(st, ps) == plainStreamType(st, binaryRead(st, ps))

cipherStreamLen(st, t, l) ==
    IF l.err # NilErr
    THEN streamed(NoHeader, 8, ErrorsNew(l.err), l.pos)
    ELSE streamBody([NoHeader EXCEPT !.Version = CipherHeaderV1,
                                     !.Prime = CipherHdrV1Prime,
                                     !.HdrType = t.val, !.HdrLen = l.val],
                    FileRead(st, l.pos, l.val), l.pos, 12)

cipherStreamType(st, t) ==
    IF t.err # NilErr
    THEN streamed(NoHeader, 4, ErrorsNew(t.err), t.pos)
    ELSE cipherStreamLen(st, t, binaryRead(st, t.pos))

cipherStreamPrime(st, p) ==
    IF p.err # NilErr
    THEN streamed(NoHeader, 0, ErrorsNew(p.err), p.pos)
    ELSE IF p.val # CipherHdrV1Prime
    THEN streamed([NoHeader EXCEPT !.Version = CipherHeaderV1, !.Prime = p.val], 4,
                  Err("Prime number does not match"), p.pos)
    ELSE cipherStreamType(st, binaryRead(st, p.pos))

\* DeserializeCipherHdrStreamV1: the source is positioned after the version;
\* the reads are those of the two-result decoder, the count of parsed bytes
\* is the total of the bytes read (prime, type, length, body)
DeserializeCipherHdrStreamV1(st, ps) == cipherStreamPrime(st, binaryRead(st, ps))

\* the dispatcher adds the 4 bytes of the version to what the V1 decoder parsed
addVersion(r) == [r EXCEPT !.parsed = U32(r.parsed + 4)]

\* a dispatcher that does not count the version bytes
DeserializePlainHdrStreamLessVersion(st, ps) ==
    IF binaryRead(st, ps).err # NilErr
    THEN streamed(NoHeader, 0, ErrorsNew(binaryRead(st, ps).err), binaryRead(st, ps).pos)
    ELSE IF binaryRead(st, ps).val = PlainHeaderV1
    THEN DeserializePlainHdrStreamV1(st, binaryRead(st, ps).pos)
    ELSE streamed(NoHeader, 0, Err("Version is not supported"), binaryRead(st, ps).pos)

\* DeserializePlainHdrStream: reads the version and dispatches on it
DeserializePlainHdrStream(st, ps) ==
    IF binaryRead(st, ps).err # NilErr
    THEN streamed(NoHeader, 0, ErrorsNew(binaryRead(st, ps).err), binaryRead(st, ps).pos)
    ELSE IF binaryRead(st, ps).val = PlainHeaderV1
    THEN addVersion(DeserializePlainHdrStreamV1(st, binaryRead(st, ps).pos))
    ELSE streamed(NoHeader, 0, Err("Version is not supported"), binaryRead(st, ps).pos)

\* a dispatcher that does not count the version bytes
DeserializeCipherHdrStreamLessVersion(st, ps) ==
    IF binaryRead(st, ps).err # NilErr
    THEN streamed(NoHeader, 0, ErrorsNew(binaryRead(st, ps).err), binaryRead(st, ps).pos)
    ELSE IF binaryRead(st, ps).val = CipherHeaderV1
    THEN DeserializeCipherHdrStreamV1(st, binaryRead(st, ps).pos)
    ELSE streamed(NoHeader, 0, Err("Version is not supported"), binaryRead(st, ps).pos)

\* DeserializeCipherHdrStream: reads the version and dispatches on it
DeserializeCipherHdrStream(st, ps) ==
    IF binaryRead(st, ps).err # NilErr
    THEN streamed(NoHeader, 0, ErrorsNew(binaryRead(st, ps).err), binaryRead(st, ps).pos)
    ELSE IF binaryRead(st, ps).val = CipherHeaderV1
    THEN addVersion(DeserializeCipherHdrStreamV1(st, binaryRead(st, ps).pos))
    ELSE streamed(NoHeader, 0, Err("Version is not supported"), binaryRead(st, ps).pos)

----------------------------------------------------------------------------
(* The state machine: one list is written through a writer, the file is    *)
(* closed and reopened, and the list is read through a reader, as the      *)
(* test suite does.                                                        *)

PaddedSizes == {0, 4, 8, 9, 12}
Records == {<<1>>, <<2, 4>>, <<7>>}

RetBase == [op |-> "none", err |-> NilErr, block |-> NoBlock, rec |-> NoRec,
            size |-> 0, arg |-> 0, probes |-> <<>>]

NoPending == [orig |-> <<>>, rest |-> <<>>, start |-> 0]

NoArg == [kind |-> "none"]

OutBase == [op |-> "none", err |-> NilErr, block |-> NoBlock, complete |-> FALSE,
            parsedBytes |-> 0, header |-> NoHeader]

Init ==
    /\ store = <<>>
    /\ pos = 0
    /\ phase = "new"
    /\ bl = NilList
    /\ rng \in 0 .. MaxSeed
    /\ written = <<>>
    /\ pending = NoPending
    /\ readLog = <<>>
    /\ eof = FALSE
    /\ ret = RetBase
    /\ lin = RetBase
    /\ arg = NoArg
    /\ buf = <<>>
    /\ out = OutBase

\* the caller writes initOffset bytes of its own, then constructs the writer
NewWriter(paddedBlockSize, initOffset) ==
    /\ phase = "new"
    /\ \E r \in {NewBlockListWriterV1(RandRead(rng, initOffset), paddedBlockSize, initOffset)} :
          /\ store' = r.store
          /\ pos' = Len(r.store)
          /\ bl' = r.bl
          /\ ret' = [RetBase EXCEPT !.op = "NewBlockListWriterV1", !.err = r.err,
                                    !.arg = paddedBlockSize]
    /\ rng' = rng + initOffset
    /\ phase' = "writing"
    /\ UNCHANGED <<written, pending, readLog, eof, lin, arg, buf, out>>

\* WriteBlockData(record).  On a padding error the caller keeps the bytes of
\* the record, to write them in chunks.
WriteRecord(rec, limit) ==
    /\ phase = "writing"
    /\ pending.rest = <<>>
    /\ Len(written) < limit
    /\ \E r \in {WriteBlockData(bl, rec, store, rng)},
          bytes \in {SerializeBlockData(bl, rec).bytes} :
          /\ bl' = r.bl
          /\ store' = r.store
          /\ pos' = Len(r.store)
          /\ rng' = r.rng
          /\ written' = IF r.err = NilErr
                        THEN Append(written, [block |-> r.block, rec |-> rec])
                        ELSE written
          /\ pending' = IF IsBlockPaddingError(r.err)
                        THEN [orig |-> bytes, rest |-> bytes, start |-> Len(written)]
                        ELSE NoPending
          /\ ret' = [RetBase EXCEPT !.op = "WriteBlockData", !.err = r.err,
                                    !.block = r.block, !.rec = rec]
    /\ UNCHANGED <<phase, readLog, eof, lin, arg, buf, out>>

\* the caller's recovery from a padding error, one turn of its loop: the next
\* chunk of at most GetMaxDataSize() bytes goes into a block of its own
WriteChunk ==
    /\ phase = "writing"
    /\ pending.rest # <<>>
    /\ Len(written) < MaxBlocks
    /\ \E maxDataSize \in {Min(GetMaxDataSize(bl), U32(Len(pending.rest)))} :
       \E r \in {writeBlockDataBytes(bl, Slice(pending.rest, 0, maxDataSize), store, rng)} :
          /\ bl' = r.bl
          /\ store' = r.store
          /\ pos' = Len(r.store)
          /\ rng' = r.rng
          /\ written' = IF r.err = NilErr
                        THEN Append(written, [block |-> r.block, rec |-> NoRec])
                        ELSE written
          /\ pending' = IF r.err = NilErr
                        THEN [pending EXCEPT
                                !.rest = Slice(pending.rest, maxDataSize, Len(pending.rest))]
                        ELSE pending
          /\ ret' = [RetBase EXCEPT !.op = "WriteChunk", !.err = r.err,
                                    !.block = r.block, !.arg = maxDataSize]
    /\ UNCHANGED <<phase, readLog, eof, lin, arg, buf, out>>

\* the file is closed and reopened, the handle is moved past the caller's
\* own bytes, and a reader is constructed with endOffset = the file's size
OpenReader ==
    /\ phase = "writing"
    /\ \E r \in {NewBlockListReaderV1(store, bl.initOffset - blockListHeaderLen,
                                      bl.initOffset - blockListHeaderLen, Len(store))} :
          /\ bl' = r.bl
          /\ pos' = r.pos
          /\ phase' = IF r.err = NilErr THEN "reading" ELSE "closed"
          /\ ret' = [RetBase EXCEPT !.op = "NewBlockListReaderV1", !.err = r.err]
    /\ readLog' = <<>>
    /\ eof' = FALSE
    /\ UNCHANGED <<store, rng, written, pending, lin, arg, buf, out>>

ReadNext ==
    /\ phase = "reading"
    /\ \E r \in {readNextBlock(bl, store, pos)} :
          /\ bl' = r.bl
          /\ pos' = r.pos
          /\ readLog' = IF r.block # NoBlock
                        THEN Append(readLog, [block |-> r.block, rec |-> NoRec,
                                              via |-> "readNextBlock"])
                        ELSE readLog
          /\ eof' = (r.err = EOF)
          /\ ret' = [RetBase EXCEPT !.op = "readNextBlock", !.err = r.err, !.block = r.block]
    /\ UNCHANGED <<store, phase, rng, written, pending, lin, arg, buf, out>>

ReadNextData ==
    /\ phase = "reading"
    /\ \E r \in {ReadNextBlockData(bl, store, pos)} :
          /\ bl' = r.bl
          /\ pos' = r.pos
          /\ readLog' = logged(readLog, r)
          /\ eof' = (r.err = EOF)
          /\ ret' = [RetBase EXCEPT !.op = "ReadNextBlockData", !.err = r.err,
                                    !.block = r.block, !.rec = r.rec, !.size = r.size]
    /\ UNCHANGED <<store, phase, rng, written, pending, lin, arg, buf, out>>

ReadAt(index) ==
    /\ phase = "reading"
    /\ \E r \in {readBlockAt(bl, store, index)} :
          /\ bl' = r.bl
          /\ ret' = [RetBase EXCEPT !.op = "readBlockAt", !.err = r.err, !.block = r.block,
                                    !.arg = index]
    /\ UNCHANGED <<store, pos, phase, rng, written, pending, readLog, eof, lin,
                   arg, buf, out>>

ResetReader ==
    /\ phase \in {"writing", "reading"}
    /\ \E r \in {Reset(bl, pos)} :
          /\ bl' = r.bl
          /\ pos' = r.pos
          /\ readLog' = IF r.err = NilErr THEN <<>> ELSE readLog
          /\ eof' = IF r.err = NilErr THEN FALSE ELSE eof
          /\ ret' = [RetBase EXCEPT !.op = "Reset", !.err = r.err]
    /\ UNCHANGED <<store, phase, rng, written, pending, lin, arg, buf, out>>

Next ==
    \/ \E p \in PaddedSizes, off \in 0 .. MaxInitOffset : NewWriter(p, off)
    \/ \E rec \in Records : WriteRecord(rec, MaxBlocks)
    \/ WriteChunk
    \/ OpenReader
    \/ ReadNext
    \/ ReadNextData
    \/ \E i \in 0 .. MaxBlocks : ReadAt(i)
    \/ ResetReader

Spec == Init /\ [][Next]_vars

----------------------------------------------------------------------------
(* Searching a sorted list: the records written hold ascending, pairwise   *)
(* disjoint key ranges; the reader searches it linearly and then by        *)
(* bisection for the same value, as testSearchV1 does.                     *)

LastKey(w) == IF w = <<>> THEN 0 ELSE w[Len(w)].rec[Len(w[Len(w)].rec)]

\* the records that may follow the ones written: a single key, or a range
\* with a key missing inside it
SortedRecords(w) == { <<LastKey(w) + 2>>, <<LastKey(w) + 1, LastKey(w) + 3>> }

SearchValues == 0 .. (3 * MaxSearchBlocks + 1)

SearchLinearOp(value) ==
    /\ phase = "reading"
    /\ \E r \in {SearchLinear(bl, store, pos, value)} :
          /\ bl' = r.bl
          /\ pos' = r.pos
          /\ readLog' = r.log
          /\ eof' = r.eof
          /\ lin' = [RetBase EXCEPT !.op = "SearchLinear", !.err = r.err, !.rec = r.rec,
                                    !.size = r.size, !.arg = value]
          /\ ret' = [RetBase EXCEPT !.op = "SearchLinear", !.err = r.err, !.rec = r.rec,
                                    !.size = r.size, !.arg = value]
    /\ UNCHANGED <<store, phase, rng, written, pending, arg, buf, out>>

SearchBinaryOp(value) ==
    /\ phase = "reading"
    /\ lin.op = "SearchLinear"
    /\ lin.arg = value
    /\ \E r \in {SearchBinary(bl, store, value)} :
          ret' = [RetBase EXCEPT !.op = "SearchBinary", !.err = r.err, !.rec = r.rec,
                                 !.size = r.size, !.arg = value, !.probes = r.probes]
    /\ UNCHANGED <<store, pos, phase, bl, rng, written, pending, readLog, eof, lin,
                   arg, buf, out>>

\* the next record of the sorted list is written
WriteSorted == \E rec \in SortedRecords(written) : WriteRecord(rec, MaxSearchBlocks)

NextSearch ==
    \/ \E off \in 0 .. MaxInitOffset : NewWriter(SearchPaddedSize, off)
    \/ WriteSorted
    \/ OpenReader
    \/ \E v \in SearchValues : SearchLinearOp(v)
    \/ \E v \in SearchValues : SearchBinaryOp(v)

SpecSearch == Init /\ [][NextSearch]_vars

\* searching, reading and resetting in any order, on padded and unpadded
\* lists of ascending records in which a block may also repeat the last key
\* of the block in front of it, or hold the key missing inside the range of
\* the block in front of it; Reset is also called on the list object of the
\* writer
NextReset ==
    \/ \E p \in {0, SearchPaddedSize} : NewWriter(p, MaxInitOffset)
    \/ WriteSorted
    \/ (written # <<>> /\ WriteRecord(<<LastKey(written)>>, MaxSearchBlocks))
    \/ (/\ written # <<>>
        /\ Len(written[Len(written)].rec) = 2
        /\ WriteRecord(<<LastKey(written) - 1>>, MaxSearchBlocks))
    \/ OpenReader
    \/ \E v \in {0, 5, 3 * MaxSearchBlocks + 1} : SearchLinearOp(v) \/ SearchBinaryOp(v)
    \/ ReadNextData
    \/ \E i \in {1, MaxSearchBlocks} : ReadAt(i)
    \/ ResetReader

SpecReset == Init /\ [][NextReset]_vars

----------------------------------------------------------------------------
(* Serializing and decoding one block, for every block and padded size of  *)
(* the bounded input sets.                                                 *)

DataBytes == {0, 1, ByteMod - 1}

SeqsUpTo(S, n) == UNION { [1 .. k -> S] : k \in 0 .. n }

BlockIds == {0, 1, MaxUint32}

BlockPaddedSizes == {0, 4} \cup (blockHeaderLen .. (blockHeaderLen + MaxDataLen + 1))

InitBlock ==
    /\ store = <<>>
    /\ pos = 0
    /\ phase = "block"
    /\ bl = NilList
    /\ rng \in 0 .. MaxSeed
    /\ written = <<>>
    /\ pending = NoPending
    /\ readLog = <<>>
    /\ eof = FALSE
    /\ ret = RetBase
    /\ lin = RetBase
    /\ \E id \in BlockIds, data \in SeqsUpTo(DataBytes, MaxDataLen), p \in BlockPaddedSizes :
          arg = [kind |-> "block", block |-> newBlock(id, U32(Len(data)), data), p |-> p]
    /\ buf = <<>>
    /\ out = OutBase

SerializeBlock ==
    /\ phase = "block"
    /\ out.op = "none"
    /\ \E r \in {Serialize(arg.block, arg.p, rng)} :
          /\ buf' = r.serial
          /\ rng' = rng + r.drawn
          /\ out' = [OutBase EXCEPT !.op = "Serialize", !.err = r.err]
    /\ UNCHANGED <<store, pos, phase, bl, written, pending, readLog, eof, ret, lin, arg>>

DeserializeBlock ==
    /\ phase = "block"
    /\ out.op = "Serialize"
    /\ out.err = NilErr
    /\ \E r \in {DeserializeBlockV1(arg.p, buf)} :
          out' = [OutBase EXCEPT !.op = "DeserializeBlockV1", !.err = r.err,
                                 !.block = r.block]
    /\ UNCHANGED <<store, pos, phase, bl, rng, written, pending, readLog, eof, ret, lin,
                   arg, buf>>

\* the caller reuses the buffer the block was decoded from: byte i of it is
\* overwritten, and the block is looked at again
OverwriteBlockInput(i) ==
    /\ phase = "block"
    /\ out.op = "DeserializeBlockV1"
    /\ out.err = NilErr
    /\ i \in 1 .. Len(buf)
    /\ buf' = [buf EXCEPT ![i] = (@ + 1) % ByteMod]
    /\ phase' = "reused"
    /\ out' = [out EXCEPT !.op = "OverwriteInput",
                           !.block.data = BlockDataSeen(out.block, buf')]
    /\ UNCHANGED <<store, pos, bl, rng, written, pending, readLog, eof, ret, lin, arg>>

\* DeserializeBlockV1 of bytes no Serialize produced: the size field of the
\* serialized block is overwritten with size, a zero byte is added, and the
\* first n bytes of that are decoded
DeserializeCrafted(size, n) ==
    /\ phase = "block"
    /\ out.op = "Serialize"
    /\ out.err = NilErr
    /\ n <= Len(buf) + 1
    /\ buf' = Slice(Slice(buf, 0, blockNumLen) \o PutUint32(size)
                       \o Slice(buf, blockHeaderLen, Len(buf)) \o <<0>>, 0, n)
    /\ \E r \in {DeserializeBlockV1(arg.p, buf')} :
          out' = [OutBase EXCEPT !.op = "DeserializeBlockV1", !.err = r.err,
                                 !.block = r.block]
    /\ phase' = "crafted"
    /\ UNCHANGED <<store, pos, bl, rng, written, pending, readLog, eof, ret, lin, arg>>

NextBlock ==
    \/ SerializeBlock
    \/ DeserializeBlock
    \/ \E size \in {0, 1, MaxDataLen + 1, MaxUint32 - blockHeaderLen,
                     MaxUint32 - blockHeaderLen + 1, MaxUint32},
          n \in 0 .. (2 * blockHeaderLen + MaxDataLen) : DeserializeCrafted(size, n)
    \/ \E i \in 1 .. (blockHeaderLen + MaxDataLen + 1) : OverwriteBlockInput(i)

SpecBlock == InitBlock /\ [][NextBlock]_vars

----------------------------------------------------------------------------
(* Serializing and decoding one header, for every kind, body type and body *)
(* of the bounded input sets.                                              *)

InitHdr ==
    /\ store = <<>>
    /\ pos = 0
    /\ phase = "header"
    /\ bl = NilList
    /\ rng = 0
    /\ written = <<>>
    /\ pending = NoPending
    /\ readLog = <<>>
    /\ eof = FALSE
    /\ ret = RetBase
    /\ lin = RetBase
    /\ \E kind \in {"plain", "cipher"}, hdrType \in HeaderTypes,
          hdrBody \in SeqsUpTo(DataBytes, MaxBodyLen) :
          arg = [kind |-> kind, hdrType |-> hdrType, hdrBody |-> hdrBody]
    /\ buf = <<>>
    /\ out = OutBase

\* the header the caller builds from arg
Created(a) ==
    IF a.kind = "plain" THEN CreatePlainHdr(a.hdrType, a.hdrBody)
    ELSE CreateCipherHdr(a.hdrType, a.hdrBody)

SerializeHdr ==
    /\ phase = "header"
    /\ out.op = "none"
    /\ \E r \in {IF arg.kind = "plain" THEN PlainHdrV1Serialize(Created(arg))
                 ELSE CipherHdrV1Serialize(Created(arg))} :
          /\ buf' = r.bytes
          /\ out' = [OutBase EXCEPT !.op = "Serialize", !.err = r.err,
                                    !.header = Created(arg)]
    /\ UNCHANGED <<store, pos, phase, bl, rng, written, pending, readLog, eof, ret, lin,
                   arg>>

\* the buffer decoder, called directly (V1) or through the version dispatch
DeserializeHdr(dispatch) ==
    /\ phase = "header"
    /\ out.op = "Serialize"
    /\ out.err = NilErr
    /\ \E r \in {IF arg.kind = "plain"
                 THEN (IF dispatch THEN DeserializePlainHdr(buf) ELSE DeserializePlainHdrV1(buf))
                 ELSE (IF dispatch THEN DeserializeCipherHdr(buf)
                       ELSE DeserializeCipherHdrV1(buf))} :
          out' = [OutBase EXCEPT !.op = IF dispatch THEN "DeserializeHdr"
                                        ELSE "DeserializeHdrV1",
                                 !.err = r.err, !.complete = r.complete,
                                 !.parsedBytes = r.parsedBytes, !.header = r.header]
    /\ UNCHANGED <<store, pos, phase, bl, rng, written, pending, readLog, eof, ret, lin,
                   arg, buf>>

\* the serialized header followed by t (the content that follows a header in
\* a file) is written to a file, and the file is reopened at its start
WriteStream(t) ==
    /\ phase = "header"
    /\ out.op = "Serialize"
    /\ out.err = NilErr
    /\ store' = buf \o t
    /\ pos' = 0
    /\ buf' = <<>>
    /\ out' = [OutBase EXCEPT !.op = "Stream"]
    /\ UNCHANGED <<phase, bl, rng, written, pending, readLog, eof, ret, lin, arg>>

\* a stream that no Serialize produced: the fixed fields hold a supported
\* or an unsupported version, the prime or another value, and a length that
\* is small, one more than any body, or within the fixed prefix of 2^32,
\* followed by the bytes of arg.hdrBody
CraftStream(version, prime, hdrLen) ==
    /\ phase = "header"
    /\ out.op = "none"
    /\ store' = PutUint32(version)
                 \o (IF arg.kind = "cipher" THEN PutUint32(prime) ELSE <<>>)
                 \o PutUint32(arg.hdrType) \o PutUint32(hdrLen) \o arg.hdrBody
    /\ pos' = 0
    /\ phase' = "crafted"
    /\ out' = [OutBase EXCEPT !.op = "Stream"]
    /\ UNCHANGED <<bl, rng, written, pending, readLog, eof, ret, lin, arg, buf>>

\* the caller of the buffer decoder: it takes n more bytes of the stream
\* into its buffer and calls the decoder on the buffer, so that the decoder
\* is applied to every prefix of the stream in turn
Feed(n, dispatch) ==
    /\ phase \in {"header", "crafted"}
    /\ out.op \in {"Stream", "Feed", "FeedV1"}
    /\ Len(buf) + n <= Len(store)
    /\ buf' = Slice(store, 0, Len(buf) + n)
    /\ \E r \in {IF arg.kind = "plain"
                 THEN (IF dispatch THEN DeserializePlainHdr(buf')
                       ELSE DeserializePlainHdrV1(buf'))
                 ELSE (IF dispatch THEN DeserializeCipherHdr(buf')
                       ELSE DeserializeCipherHdrV1(buf'))} :
          out' = [OutBase EXCEPT !.op = IF dispatch THEN "Feed" ELSE "FeedV1",
                                 !.err = r.err, !.complete = r.complete,
                                 !.parsedBytes = r.parsedBytes, !.header = r.header]
    /\ UNCHANGED <<store, pos, phase, bl, rng, written, pending, readLog, eof, ret, lin,
                   arg>>

\* the stream decoder, called on the reopened file
DeserializeHdrStream ==
    /\ phase \in {"header", "crafted"}
    /\ out.op = "Stream"
    /\ \E r \in {IF arg.kind = "plain" THEN DeserializePlainHdrStream(store, pos)
                 ELSE DeserializeCipherHdrStream(store, pos)} :
          /\ pos' = r.pos
          /\ out' = [OutBase EXCEPT !.op = "DeserializeHdrStream", !.err = r.err,
                                    !.parsedBytes = r.parsed, !.header = r.header]
    /\ UNCHANGED <<store, phase, bl, rng, written, pending, readLog, eof, ret, lin,
                   arg, buf>>

\* the caller reuses the buffer the header was decoded from: byte i of it
\* is overwritten, and the header is looked at again
OverwriteHdrInput(i) ==
    /\ phase = "header"
    /\ out.op = "DeserializeHdrV1"
    /\ out.complete
    /\ i \in 1 .. Len(buf)
    /\ buf' = [buf EXCEPT ![i] = (@ + 1) % ByteMod]
    /\ out' = [out EXCEPT !.op = "OverwriteInput",
                           !.header.HdrBody =
                               HdrBodySeen(out.header, buf',
                                           IF arg.kind = "plain" THEN 12 ELSE 16)]
    /\ UNCHANGED <<store, pos, phase, bl, rng, written, pending, readLog, eof, ret, lin,
                   arg>>

NextHdr ==
    \/ SerializeHdr
    \/ \E i \in 1 .. (16 + MaxBodyLen) : OverwriteHdrInput(i)
    \/ \E dispatch \in BOOLEAN : DeserializeHdr(dispatch)
    \/ \E t \in SeqsUpTo({1, ByteMod - 2}, MaxTrailLen) : WriteStream(t)
    \/ \E version \in {PlainHeaderV1, PlainHeaderV1 + 1},
          prime \in {CipherHdrV1Prime, U32(CipherHdrV1Prime + 1)},
          hdrLen \in {0, 1, MaxBodyLen + 1, MaxUint32 - 15, MaxUint32 - 11,
                      MaxUint32 - 3, MaxUint32} :
          CraftStream(version, prime, hdrLen)
    \/ \E n \in 0 .. 1, dispatch \in BOOLEAN : Feed(n, dispatch)
    \/ DeserializeHdrStream

SpecHdr == InitHdr /\ [][NextHdr]_vars

----------------------------------------------------------------------------
(* Opening a reader on a file that holds a block list behind the caller's *)
(* own bytes: the version field of the list header is this version's or    *)
(* another's, and the reader is given any endOffset.                       *)

\* the writer w after n more blocks of the given data (a failed write
\* leaves the writer and the file as they were)
RECURSIVE WrittenList(_, _, _)
WrittenList(w, n, data) ==
    IF n = 0 THEN w
    ELSE WrittenList(writeBlockDataBytes(w.bl, data, w.store, w.rng), n - 1, data)

InitOpen ==
    /\ pos = 0
    /\ phase = "file"
    /\ bl = NilList
    /\ written = <<>>
    /\ pending = NoPending
    /\ readLog = <<>>
    /\ eof = FALSE
    /\ ret = RetBase
    /\ lin = RetBase
    /\ buf = <<>>
    /\ out = OutBase
    /\ \E version \in {BlockListV1 - 1, BlockListV1, BlockListV1 + 1},
          p \in PaddedSizes, off \in 0 .. MaxInitOffset, n \in 0 .. MaxBlocks,
          seed \in 0 .. MaxSeed :
          \E w \in {WrittenList(NewBlockListWriterV1(RandRead(seed, off), p, off)
                                 @@ [block |-> NoBlock, rng |-> seed + off],
                                 n, <<1>>)} :
             /\ arg = [kind |-> "file", version |-> version, initOffset |-> off,
                       cut |-> FALSE]
             /\ store = Slice(w.store, 0, off) \o PutUint32(version)
                           \o Slice(w.store, off + versionLen, Len(w.store))
             /\ rng = w.rng

\* NewBlockListReaderV1 on the file, its handle moved to the list
OpenFile ==
    /\ phase = "file"
    /\ \E endOffset \in 0 .. (Len(store) + 1) :
       \E r \in {NewBlockListReaderV1(store, arg.initOffset, arg.initOffset, endOffset)} :
          /\ bl' = r.bl
          /\ pos' = r.pos
          /\ phase' = IF r.err = NilErr THEN "opened" ELSE "refused"
          /\ ret' = [RetBase EXCEPT !.op = "NewBlockListReaderV1", !.err = r.err,
                                    !.arg = endOffset]
    /\ UNCHANGED <<store, rng, written, pending, readLog, eof, lin, arg, buf, out>>

\* a sequential read through the reader that was returned
ReadOpened ==
    /\ phase = "opened"
    /\ ~eof
    /\ \E r \in {readNextBlock(bl, store, pos)} :
          /\ bl' = r.bl
          /\ pos' = r.pos
          /\ readLog' = IF r.block # NoBlock
                        THEN Append(readLog, [block |-> r.block, rec |-> NoRec,
                                              via |-> "readNextBlock"])
                        ELSE readLog
          /\ eof' = (r.err # NilErr)
          /\ ret' = [RetBase EXCEPT !.op = "readNextBlock", !.err = r.err, !.block = r.block]
    /\ UNCHANGED <<store, phase, rng, written, pending, lin, arg, buf, out>>

\* the file is not the writer's any more: the id field of its block k, which
\* starts blockStart bytes into the file, is overwritten with id
OverwriteBlockId(k, id) ==
    /\ phase = "file"
    /\ \E p \in {Uint32(Slice(store, arg.initOffset + versionLen,
                                arg.initOffset + blockListHeaderLen))} :
       \E blockStart \in {arg.initOffset + blockListHeaderLen
                             + k * (IF p > 0 THEN p ELSE blockHeaderLen + 1)} :
          /\ blockStart + blockHeaderLen <= Len(store)
          /\ store' = Slice(store, 0, blockStart) \o PutUint32(id)
                          \o Slice(store, blockStart + blockNumLen, Len(store))
    /\ store' # store
    /\ UNCHANGED <<pos, phase, bl, rng, written, pending, readLog, eof, ret, lin, arg, buf,
                   out>>

\* the file lost its last k bytes (a write that was cut short, a partial
\* copy) before the reader is opened on it
TruncateFile(k) ==
    /\ phase = "file"
    /\ ~arg.cut
    /\ k <= Len(store) - (arg.initOffset + blockListHeaderLen)
    /\ store' = Slice(store, 0, Len(store) - k)
    /\ arg' = [arg EXCEPT !.cut = TRUE]
    /\ UNCHANGED <<pos, phase, bl, rng, written, pending, readLog, eof, ret, lin, buf, out>>

\* GetTotalBlocks on the reader that was returned; the count is kept in the
\* size field of the result
TotalBlocksOpened ==
    /\ phase = "opened"
    /\ ret.op # "GetTotalBlocks"
    /\ \E r \in {GetTotalBlocks(bl)} :
          ret' = [RetBase EXCEPT !.op = "GetTotalBlocks", !.err = r.err, !.size = r.n]
    /\ UNCHANGED <<store, pos, phase, bl, rng, written, pending, readLog, eof, lin, arg, buf,
                   out>>

NextOpen ==
    \/ OpenFile
    \/ ReadOpened
    \/ TotalBlocksOpened
    \/ \E k \in 0 .. (MaxBlocks - 1), id \in {0, MaxUint32} : OverwriteBlockId(k, id)
    \/ \E k \in 1 .. 2 : TruncateFile(k)

SpecOpen == InitOpen /\ [][NextOpen]_vars

----------------------------------------------------------------------------
(* Properties of the block list (Spec) *)

\* every successful write so far was a WriteBlockData of a record
AllRecords(w) == \A i \in 1 .. Len(w) : w[i].rec # NoRec

RECURSIVE Concat(_)
Concat(ss) == IF ss = <<>> THEN <<>> ELSE Head(ss) \o Concat(Tail(ss))

\* C1: when every block of the list was written by WriteBlockData of a record
\* (unpadded, or padded with the record fitting), the blocks consumed by
\* sequential reads are the written ones in write order: the i-th has id i
\* (0-based) and yields the i-th record; a sequential read never fails except
\* with io.EOF, and at io.EOF as many blocks were read as were written.
C1_SequentialRoundTrip ==
    (phase = "reading" /\ AllRecords(written)) =>
        /\ Len(readLog) <= Len(written)
        /\ \A i \in 1 .. Len(readLog) :
              /\ readLog[i].block.id = i - 1
              /\ readLog[i].block = written[i].block
              /\ (readLog[i].via = "ReadNextBlockData" => readLog[i].rec = written[i].rec)
        /\ (ret.op \in {"ReadNextBlockData", "readNextBlock"} => ret.err \in {NilErr, EOF})
        /\ (ret.op = "ReadNextBlockData" /\ ret.err = NilErr =>
               ret.rec = written[Len(readLog)].rec)
        /\ (eof => Len(readLog) = Len(written))

\* an unpadded list of several records read to the end with ReadNextBlockData
C1_Witness ==
    /\ phase = "reading"
    /\ ~IsBlockPadded(bl)
    /\ eof
    /\ Len(written) >= 2
    /\ AllRecords(written)
    /\ written[1].rec # written[2].rec
    /\ Len(readLog) = Len(written)
    /\ \A i \in 1 .. Len(readLog) : readLog[i].via = "ReadNextBlockData"

\* C2: the blocks written successfully carry the ids 0, 1, 2, ... in write
\* order, whatever writes (records, chunks, refused writes) were made; the
\* writer's current block is the last one written.
C2_IdsAscend ==
    /\ \A i \in 1 .. Len(written) : written[i].block.id = i - 1
    /\ (phase = "writing" /\ written # <<>> =>
           GetCurBlock(bl) = written[Len(written)].block)
    /\ (phase = "writing" /\ written = <<>> => GetCurBlock(bl) = NoBlock)

\* three blocks written, a write having been refused in between
C2_Witness ==
    /\ phase = "writing"
    /\ Len(written) >= 3
    /\ \E i \in 1 .. Len(written) : written[i].rec = NoRec

\* C3: on a padded list of n blocks, readBlockAt(i) with i < n succeeds and
\* returns the block of id i, equal in id, size and data to the i-th block
\* written and to the i-th block of the sequential reads, whatever was read
\* before.
C3_RandomEqualsSequential ==
    (phase = "reading" /\ IsBlockPadded(bl) /\ ret.op = "readBlockAt"
        /\ ret.arg < Len(written)) =>
        /\ ret.err = NilErr
        /\ ret.block.id = ret.arg
        /\ ret.block = written[ret.arg + 1].block
        /\ (ret.arg < Len(readLog) => ret.block = readLog[ret.arg + 1].block)

\* a block that is not the first, read by index after the sequential reads
\* went past it, in a list that does not start at offset 0
C3_Witness ==
    /\ phase = "reading"
    /\ IsBlockPadded(bl)
    /\ bl.initOffset > blockListHeaderLen
    /\ ret.op = "readBlockAt"
    /\ ret.err = NilErr
    /\ ret.arg >= 1
    /\ ret.arg < Len(readLog)

\* C8: in padded mode, a WriteBlockData that fails fails with an error that
\* IsBlockPaddingError recognises; then every chunk of at most GetMaxDataSize()
\* bytes of the record's bytes is written without error, and once the chunks
\* are written the data of their blocks, read sequentially and concatenated,
\* is the record's bytes.
C8_ChunkRecovery ==
    /\ (ret.op = "WriteBlockData" /\ ret.err # NilErr /\ IsBlockPadded(bl) =>
           IsBlockPaddingError(ret.err))
    /\ (ret.op = "WriteChunk" => ret.err = NilErr)
    /\ (phase = "reading" /\ eof /\ pending.orig # <<>> /\ pending.rest = <<>> =>
           Concat([i \in 1 .. (Len(readLog) - pending.start) |->
                      readLog[pending.start + i].block.data]) = pending.orig)

\* C9: for a padded writer with k successful writes, endOffset - initOffset is
\* k * paddedBlockSize and GetTotalBlocks() returns k without error (0 right
\* after construction), whatever writes were refused.
C9_SpanIsMultiple ==
    (phase = "writing" /\ IsBlockPadded(bl)) =>
        /\ bl.endOffset - bl.initOffset = Len(written) * GetPaddedBlockSize(bl)
        /\ GetTotalBlocks(bl) = [n |-> Len(written), err |-> NilErr]
        /\ Len(store) = bl.endOffset

\* a refused write after two successful ones
C9_Witness ==
    /\ phase = "writing"
    /\ IsBlockPadded(bl)
    /\ Len(written) >= 2
    /\ ret.op = "WriteBlockData"
    /\ ret.err # NilErr

----------------------------------------------------------------------------
(* Properties of the searches (SpecSearch) *)

RECURSIVE CeilLog2(_)
CeilLog2(n) == IF n <= 1 THEN 0 ELSE 1 + CeilLog2((n + 1) \div 2)

\* C4: on a sorted padded list, SearchBinary(v) and SearchLinear(v) both
\* return without error, and return the same record or both not-found.
C4_BinaryEqualsLinear ==
    (phase = "reading" /\ ret.op = "SearchBinary") =>
        /\ lin.err = NilErr
        /\ ret.err = NilErr
        /\ ret.rec = lin.rec
        /\ ret.size = lin.size

----------------------------------------------------------------------------
(* Properties of one block (SpecBlock) *)

\* the block fits: no padding, or header and data within the padded size
Fits(a) == a.p = 0 \/ blockHeaderLen + Len(a.block.data) <= a.p

\* C6: for a block that fits, Serialize succeeds; the result is p bytes long
\* when p > 0 and 8 + len(data) bytes long when p = 0; its bytes
\* [8, 8 + len(data)) are the data; DeserializeBlockV1 of it succeeds and
\* returns a block of the same id, size and data.  Empty data included.
C6_BlockRoundTrip ==
    (phase = "block" /\ out.op # "none" /\ Fits(arg)) =>
        /\ Len(buf) = IF arg.p > 0 THEN arg.p ELSE blockHeaderLen + Len(arg.block.data)
        /\ Slice(buf, blockHeaderLen, blockHeaderLen + Len(arg.block.data)) = arg.block.data
        /\ (out.op = "Serialize" => out.err = NilErr)
        /\ (out.op = "DeserializeBlockV1" => out.err = NilErr /\ out.block = arg.block)

\* a padded block of empty data, decoded from bytes that are all padding
\* after the block header
C6_Witness ==
    /\ phase = "block"
    /\ out.op = "DeserializeBlockV1"
    /\ arg.p > blockHeaderLen
    /\ arg.block.data = <<>>
    /\ out.block = arg.block

----------------------------------------------------------------------------
(* Properties of one header (SpecHdr) *)

\* C10: for every kind (plaintext, ciphertext), body type and body, the
\* buffer decoder applied to the serialized header returns complete = TRUE,
\* no error, the original header (version, prime, type, body, and HdrLen the
\* uncompressed length of the body) and parsedBytes = the number of
\* serialized bytes.
C10_HeaderRoundTrip ==
    (phase = "header" /\ out.op \in {"DeserializeHdr", "DeserializeHdrV1"}) =>
        /\ out.complete
        /\ out.err = NilErr
        /\ out.header = Created(arg)
        /\ out.header.HdrLen = Len(arg.hdrBody)
        /\ out.header.HdrBody = arg.hdrBody
        /\ out.parsedBytes = Len(buf)

\* a ciphertext header with a gzipped, non-empty body, decoded
C10_Witness ==
    /\ phase = "header"
    /\ out.op = "DeserializeHdrV1"
    /\ arg.kind = "cipher"
    /\ IsGzipped(arg.hdrType)
    /\ arg.hdrBody # <<>>
    /\ out.complete
    /\ Len(buf) > 16 + Len(arg.hdrBody)

----------------------------------------------------------------------------
(* Properties of the buffer decoder applied to the prefixes of a stream,   *)
(* and of the stream decoders (SpecHdr)                                    *)

\* the bytes of the serialized header of arg
HdrSerial(a) ==
    IF a.kind = "plain" THEN PlainHdrV1Serialize(Created(a)).bytes
    ELSE CipherHdrV1Serialize(Created(a)).bytes

\* the buffer decoder has just been applied to buf, a prefix of a stream
\* that begins with the serialized header of arg
FedSerialized == phase = "header" /\ out.op \in {"Feed", "FeedV1"}

\* C11: for every serialized header s (plaintext or ciphertext) and every
\* prefix of s strictly shorter than s, the buffer decoder (called directly
\* or through the version dispatch) returns complete = FALSE and no error;
\* it returns complete = TRUE exactly when the buffer holds all of s or more.
C11_PrefixIncomplete ==
    FedSerialized =>
        /\ Len(buf) < Len(HdrSerial(arg)) => (~out.complete /\ out.err = NilErr)
        /\ out.complete <=> Len(buf) >= Len(HdrSerial(arg))

\* a ciphertext header with a gzipped body cut one byte short of its end
C11_Witness ==
    /\ FedSerialized
    /\ arg.kind = "cipher"
    /\ IsGzipped(arg.hdrType)
    /\ Len(buf) = Len(HdrSerial(arg)) - 1
    /\ Len(buf) > 16
    /\ ~out.complete

\* the length of the fixed prefix of a header of arg's kind
FixedLen(a) == IF a.kind = "plain" THEN 12 ELSE 16

\* the hdrLen field of the stream
StreamHdrLen == Uint32(Slice(store, FixedLen(arg) - 4, FixedLen(arg)))

\* the buffer decoder has just been applied to buf, a prefix of a stream
\* that starts with the supported version
FedSupported ==
    /\ phase \in {"header", "crafted"}
    /\ out.op \in {"Feed", "FeedV1"}
    /\ Uint32(Slice(store, 0, 4)) = PlainHeaderV1

\* C12: for every buffer that starts with a supported version and every
\* value of its hdrLen field, a buffer shorter than the fixed prefix (12
\* bytes plaintext, 16 ciphertext), or with a correct prime shorter than the
\* fixed prefix plus hdrLen, decodes to complete = FALSE with no error:
\* never an error, never a crash.
C12_ShortBufferNeverFails ==
    (/\ FedSupported
     /\ \/ Len(buf) < FixedLen(arg)
        \/ /\ arg.kind = "cipher" => Uint32(Slice(store, 4, 8)) = CipherHdrV1Prime
           /\ Len(buf) < FixedLen(arg) + StreamHdrLen)
    => (~out.complete /\ out.err = NilErr)

\* C13: when the buffer decoder returns complete = TRUE on a serialized
\* header s followed by trailing bytes t, it returns the header that decoding
\* s alone returns (the original header) and parsedBytes = len(s), so the
\* bytes of the buffer from parsedBytes on are exactly t.
C13_ParsedBytesExact ==
    (FedSerialized /\ out.complete) =>
        /\ out.parsedBytes = Len(HdrSerial(arg))
        /\ out.header = Created(arg)
        /\ out.header = (IF arg.kind = "plain"
                         THEN DeserializePlainHdrV1(HdrSerial(arg)).header
                         ELSE DeserializeCipherHdrV1(HdrSerial(arg)).header)
        /\ Slice(buf, out.parsedBytes, Len(buf))
              = Slice(store, Len(HdrSerial(arg)), Len(buf))

\* a gzipped plaintext header decoded from a buffer that holds two bytes of
\* the content after it
C13_Witness ==
    /\ FedSerialized
    /\ out.complete
    /\ arg.kind = "plain"
    /\ IsGzipped(arg.hdrType)
    /\ arg.hdrBody # <<>>
    /\ Len(buf) = Len(HdrSerial(arg)) + 2
    /\ Slice(buf, out.parsedBytes, Len(buf)) = <<1, ByteMod - 2>>

\* C14: the ciphertext decoder applied to a buffer of at least 16 bytes whose
\* prime field (bytes 4..7) is not CipherHdrV1Prime fails with an error and
\* never returns complete = TRUE; applied to a buffer shorter than 16 bytes
\* it returns complete = FALSE and no error, whatever the bytes are (through
\* the version dispatch: whatever the bytes after a supported version are).
C14_PrimeMismatch ==
    (/\ phase \in {"header", "crafted"}
     /\ out.op \in {"Feed", "FeedV1"}
     /\ arg.kind = "cipher") =>
        /\ (Len(buf) >= 16 /\ Uint32(Slice(buf, 4, 8)) # CipherHdrV1Prime)
              => (out.err # NilErr /\ ~out.complete)
        /\ (Len(buf) < 16 /\ out.op = "FeedV1")
              => (~out.complete /\ out.err = NilErr)
        /\ (Len(buf) < 16 /\ out.op = "Feed"
               /\ (Len(buf) >= 4 => Uint32(Slice(buf, 0, 4)) = CipherHeaderV1))
              => (~out.complete /\ out.err = NilErr)

\* a 16-byte buffer with a supported version and a wrong prime is refused
\* with the prime error
C14_Witness ==
    /\ phase = "crafted"
    /\ out.op = "FeedV1"
    /\ arg.kind = "cipher"
    /\ Len(buf) = 16
    /\ Uint32(Slice(buf, 0, 4)) = CipherHeaderV1
    /\ Uint32(Slice(buf, 4, 8)) # CipherHdrV1Prime
    /\ out.err = Err("Prime number does not match")
    /\ ~out.complete

\* the stream decoder has just been applied to a file that begins with the
\* serialized header of arg
StreamedSerialized == phase = "header" /\ out.op = "DeserializeHdrStream"

\* C15: for every plaintext header of every body type, DeserializePlainHdrStream
\* on a source that begins with the serialized header returns no error, the
\* original header (version, type, body, and HdrLen the uncompressed length)
\* and parsed = the serialized length, and leaves the source right after
\* the header, so that the content after it is what is read next.
C15_PlainStreamRoundTrip ==
    (StreamedSerialized /\ arg.kind = "plain") =>
        /\ out.err = NilErr
        /\ out.header = CreatePlainHdr(arg.hdrType, arg.hdrBody)
        /\ out.header.Version = PlainHeaderV1
        /\ out.header.HdrLen = Len(arg.hdrBody)
        /\ out.parsedBytes = Len(HdrSerial(arg))
        /\ pos = Len(HdrSerial(arg))
        /\ FileRead(store, pos, Len(store) - Len(HdrSerial(arg))).bytes
              = Slice(store, Len(HdrSerial(arg)), Len(store))

\* a gzipped plaintext header read from a file that holds content after it
C15_Witness ==
    /\ StreamedSerialized
    /\ arg.kind = "plain"
    /\ arg.hdrType = HeaderTypeJSONGzip
    /\ arg.hdrBody # <<>>
    /\ out.err = NilErr
    /\ pos > 12 + Len(arg.hdrBody)
    /\ FileRead(store, pos, 2).bytes = <<ByteMod - 2, 1>>

----------------------------------------------------------------------------
(* Properties of a list embedded at an offset (SpecSearch) *)

\* the offset of the list header in the store
ListOffset(b) == b.initOffset - blockListHeaderLen

\* the list object of the same list at offset 0: the three offsets moved
Shifted(b, off) ==
    [b EXCEPT !.initOffset = @ - off, !.curOffset = @ - off, !.endOffset = @ - off]

\* the store of the same list at offset 0: the bytes in front of it removed
AtZero(st, off) == Slice(st, off, Len(st))

\* the result r of an operation on the embedded list and the result r0 of
\* the operation on the list at offset 0 are the same, offsets apart
SameRead(r, r0, off) ==
    /\ r.err = r0.err
    /\ r.block = r0.block
    /\ r.rec = r0.rec
    /\ r.size = r0.size
    /\ Shifted(r.bl, off) = r0.bl
    /\ r.pos - off = r0.pos

SameSearch(r, r0, off) ==
    /\ r.err = r0.err
    /\ r.rec = r0.rec
    /\ r.size = r0.size
    /\ Shifted(r.bl, off) = r0.bl
    /\ r.pos - off = r0.pos
    /\ r.log = r0.log
    /\ r.eof = r0.eof
    /\ r.probes = r0.probes

SameWrite(r, r0, off) ==
    /\ r.err = r0.err
    /\ r.block = r0.block
    /\ r.rng = r0.rng
    /\ Shifted(r.bl, off) = r0.bl
    /\ AtZero(r.store, off) = r0.store

\* C17: a block list written at a non-zero initOffset, with arbitrary bytes
\* in front of it, behaves as the same list at offset 0: a write, the
\* construction of the reader, a sequential read, Reset, readBlockAt(i) and
\* ReadBlockDataAt(i) for every i, GetTotalBlocks and both searches give the
\* same results and leave the same list state, offsets apart.
C17_OffsetIndependent ==
    /\ phase = "writing" =>
          /\ \A rec \in SortedRecords(written) :
                SameWrite(WriteBlockData(bl, rec, store, rng),
                          WriteBlockData(Shifted(bl, ListOffset(bl)), rec,
                                         AtZero(store, ListOffset(bl)), rng),
                          ListOffset(bl))
          /\ \E r \in {NewBlockListReaderV1(store, ListOffset(bl), ListOffset(bl),
                                            Len(store))},
                r0 \in {NewBlockListReaderV1(AtZero(store, ListOffset(bl)), 0, 0,
                                             Len(store) - ListOffset(bl))} :
                /\ r.err = r0.err
                /\ Shifted(r.bl, ListOffset(bl)) = r0.bl
                /\ r.pos - ListOffset(bl) = r0.pos
    /\ phase = "reading" =>
          /\ SameRead(readNextBlock(bl, store, pos),
                      readNextBlock(Shifted(bl, ListOffset(bl)),
                                    AtZero(store, ListOffset(bl)), pos - ListOffset(bl)),
                      ListOffset(bl))
          /\ SameRead(ReadNextBlockData(bl, store, pos),
                      ReadNextBlockData(Shifted(bl, ListOffset(bl)),
                                        AtZero(store, ListOffset(bl)), pos - ListOffset(bl)),
                      ListOffset(bl))
          /\ Shifted(Reset(bl, pos).bl, ListOffset(bl))
                = Reset(Shifted(bl, ListOffset(bl)), pos - ListOffset(bl)).bl
          /\ GetTotalBlocks(bl) = GetTotalBlocks(Shifted(bl, ListOffset(bl)))
          /\ \A i \in 0 .. MaxSearchBlocks :
                \E r \in {readBlockAt(bl, store, i)},
                   r0 \in {readBlockAt(Shifted(bl, ListOffset(bl)),
                                       AtZero(store, ListOffset(bl)), i)},
                   d \in {ReadBlockDataAt(bl, store, i)},
                   d0 \in {ReadBlockDataAt(Shifted(bl, ListOffset(bl)),
                                           AtZero(store, ListOffset(bl)), i)} :
                   /\ r.err = r0.err /\ r.block = r0.block
                   /\ d.err = d0.err /\ d.block = d0.block
                   /\ d.rec = d0.rec /\ d.size = d0.size
          /\ \A v \in SearchValues :
                /\ SameSearch(SearchLinear(bl, store, pos, v),
                              SearchLinear(Shifted(bl, ListOffset(bl)),
                                           AtZero(store, ListOffset(bl)),
                                           pos - ListOffset(bl), v),
                              ListOffset(bl))
                /\ SearchBinary(bl, store, v)
                     = SearchBinary(Shifted(bl, ListOffset(bl)),
                                    AtZero(store, ListOffset(bl)), v)

\* a reader of a list of three blocks behind two foreign bytes, its cursor
\* inside the list
C17_Witness ==
    /\ phase = "reading"
    /\ ListOffset(bl) = MaxInitOffset
    /\ ListOffset(bl) > 0
    /\ Len(written) >= 3
    /\ bl.curBlock # NoBlock
    /\ bl.curOffset < bl.endOffset
    /\ readBlockAt(bl, store, 2).block = written[3].block

----------------------------------------------------------------------------
(* Properties of the padded block size (Spec) *)

\* C18: on a padded writer of any paddedBlockSize > 0, GetMaxDataSize() is
\* paddedBlockSize - 8 in 32-bit unsigned arithmetic and is the largest
\* payload of a block: a write of data d succeeds if and only if
\* len(d) <= GetMaxDataSize(); in unpadded mode GetMaxDataSize() is 2^32 - 1.
C18_MaxDataSizeIsLargest ==
    (phase = "writing" /\ ret.op = "WriteBlockData") =>
        /\ IsBlockPadded(bl) =>
              /\ GetMaxDataSize(bl) = U32(bl.paddedBlockSize - 8)
              /\ (ret.err = NilErr)
                    <=> (Len(SerializeBlockData(bl, ret.rec).bytes) <= GetMaxDataSize(bl))
        /\ ~IsBlockPadded(bl) => GetMaxDataSize(bl) = MaxUint32

\* C19: a block list in padded mode has paddedBlockSize >= 9: no writer is
\* constructed and no reader is opened in padded mode with a paddedBlockSize
\* in 1..8.
C19_PaddedSizeAtLeastNine ==
    (phase \in {"writing", "reading"} /\ IsBlockPadded(bl)) => bl.paddedBlockSize >= 9

----------------------------------------------------------------------------
(* Properties of opening a reader (SpecOpen) *)

\* C20: opening a reader on a stream whose list version field is not
\* BlockListV1 fails with an error, and no reader object is returned.
C20_UnknownListVersion ==
    (phase \in {"opened", "refused"} /\ arg.version # BlockListV1) =>
        (phase = "refused" /\ ret.err # NilErr /\ bl = NilList)

\* C21: constructing a reader over a list whose header on disk says padded
\* mode fails unless the endOffset the caller supplies is at least
\* initOffset + 8: no reader of a padded list has a window that does not
\* contain the list header.
C21_WindowHoldsHeader ==
    (phase = "opened" /\ IsBlockPadded(bl)) =>
        bl.endOffset >= arg.initOffset + blockListHeaderLen

----------------------------------------------------------------------------
(* Properties of the operations on the list (Spec) *)

\* C22: in unpadded mode the operations that need blocks of a fixed size are
\* refused: GetTotalBlocks (on a writer and on a reader), readBlockAt,
\* ReadBlockDataAt and SearchBinary each return an error, read no block, and
\* leave the current block and the offsets of the list as they were.
C22_UnpaddedRefusals ==
    (phase \in {"writing", "reading"} /\ ~IsBlockPadded(bl)) =>
        /\ GetTotalBlocks(bl).err # NilErr
        /\ \A i \in 0 .. MaxBlocks :
              /\ readBlockAt(bl, store, i).err # NilErr
              /\ readBlockAt(bl, store, i).block = NoBlock
              /\ readBlockAt(bl, store, i).bl = bl
              /\ ReadBlockDataAt(bl, store, i).err # NilErr
              /\ ReadBlockDataAt(bl, store, i).rec = NoRec
              /\ ReadBlockDataAt(bl, store, i).bl = bl
        /\ \A v \in 0 .. 8 :
              /\ SearchBinary(bl, store, v).err # NilErr
              /\ SearchBinary(bl, store, v).rec = NoRec
              /\ SearchBinary(bl, store, v).probes = <<>>
        /\ (ret.op = "readBlockAt") => (ret.err # NilErr /\ ret.block = NoBlock)

\* a random read was refused on an unpadded reader that is inside its list
C22_Witness ==
    /\ phase = "reading"
    /\ ~IsBlockPadded(bl)
    /\ Len(written) >= 2
    /\ bl.curBlock # NoBlock
    /\ ret.op = "readBlockAt"
    /\ ret.arg = 1
    /\ ret.err # NilErr

----------------------------------------------------------------------------
(* Properties of decoded values (SpecHdr) *)

\* C23: a header returned by DeserializePlainHdrV1 / DeserializeCipherHdrV1
\* is a value independent of the input: after the decoder has returned,
\* overwriting bytes of the input buffer does not change the body of the
\* returned header.
C23_DecodedIsIndependent ==
    (phase = "header" /\ out.op = "OverwriteInput") => out.header.HdrBody = arg.hdrBody

----------------------------------------------------------------------------
(* Properties of the searches (SpecSearch) *)

----------------------------------------------------------------------------
(* tools.BinarySearchU64, one loop iteration per step (SpecU64) *)

\* a loop body that keeps mid inside the interval when it narrows
binarySearchKeepMid(list, val, left, right, mid) ==
    IF list[mid + 1] = val THEN [done |-> TRUE, index |-> mid, left |-> left, right |-> right]
    ELSE IF left = right THEN [done |-> TRUE, index |-> -1, left |-> left, right |-> right]
    ELSE IF list[mid + 1] > val
    THEN [done |-> FALSE, index |-> -1, left |-> left, right |-> mid]
    ELSE [done |-> FALSE, index |-> -1, left |-> mid, right |-> right]

\* the body of the loop of BinarySearchU64 for the interval left..right and
\* the mid computed from it; list[mid] of the code is list[mid + 1] here
binarySearchBody(list, val, left, right, mid) ==
    IF list[mid + 1] = val THEN [done |-> TRUE, index |-> mid, left |-> left, right |-> right]
    ELSE IF left = right THEN [done |-> TRUE, index |-> -1, left |-> left, right |-> right]
    ELSE IF list[mid + 1] > val
    THEN [done |-> FALSE, index |-> -1, left |-> left,
          right |-> IF mid > left THEN mid - 1 ELSE left]
    ELSE [done |-> FALSE, index |-> -1,
          left |-> IF mid < right THEN mid + 1 ELSE right, right |-> right]

\* the caller holds a sorted list (nil or not) and a value
InitU64 ==
    /\ store = <<>>
    /\ pos = 0
    /\ phase = "u64"
    /\ bl = NilList
    /\ rng = 0
    /\ written = <<>>
    /\ pending = NoPending
    /\ readLog = <<>>
    /\ eof = FALSE
    /\ ret = RetBase
    /\ lin = RetBase
    /\ \E list \in SeqsUpTo(0 .. MaxKey, MaxListLen), val \in 0 .. MaxKey, isNil \in BOOLEAN :
          /\ \A i \in 1 .. Len(list) - 1 : list[i] <= list[i + 1]
          /\ isNil => list = <<>>
          /\ arg = [kind |-> "u64", list |-> list, val |-> val, isNil |-> isNil]
    /\ buf = <<>>
    /\ out = [op |-> "none", done |-> FALSE, index |-> -1, left |-> 0, right |-> 0]

\* the call, up to the loop: -1 for the nil or empty list, otherwise
\* left := 0 and right := len(list) - 1
BinarySearchU64 ==
    /\ phase = "u64"
    /\ out.op = "none"
    /\ out' = IF arg.isNil \/ Len(arg.list) = 0
              THEN [out EXCEPT !.op = "BinarySearchU64", !.done = TRUE, !.index = -1]
              ELSE [out EXCEPT !.op = "BinarySearchU64", !.left = 0,
                               !.right = Len(arg.list) - 1]
    /\ UNCHANGED <<store, pos, phase, bl, rng, written, pending, readLog, eof, ret, lin,
                   arg, buf>>

\* one iteration of the loop
BinarySearchU64Iterate ==
    /\ phase = "u64"
    /\ out.op = "BinarySearchU64"
    /\ ~out.done
    /\ \E r \in {binarySearchBody(arg.list, arg.val, out.left, out.right,
                                   (out.left + out.right) \div 2)} :
          out' = [out EXCEPT !.done = r.done, !.index = r.index, !.left = r.left,
                             !.right = r.right]
    /\ UNCHANGED <<store, pos, phase, bl, rng, written, pending, readLog, eof, ret, lin,
                   arg, buf>>

NextU64 ==
    \/ BinarySearchU64
    \/ BinarySearchU64Iterate

\* the call runs on: a started iteration is followed by the next one
SpecU64 == InitU64 /\ [][NextU64]_vars /\ WF_vars(NextU64)

----------------------------------------------------------------------------
(* Properties of BinarySearchU64 (SpecU64) *)

\* C25: for every sorted list of unsigned 64-bit values and every value
\* val, BinarySearchU64 terminates and returns an index i with
\* list[i] = val when val occurs in the list, and -1 when it does not,
\* including for the empty or nil list.
C25_BinarySearchU64 ==
    <>[](/\ out.done
         /\ IF \E i \in 1 .. Len(arg.list) : arg.list[i] = arg.val
            THEN out.index \in 0 .. Len(arg.list) - 1 /\ arg.list[out.index + 1] = arg.val
            ELSE out.index = -1)

\* a value found in a list of four values or more, after the interval has
\* been narrowed down to its last index
C25_Witness ==
    /\ phase = "u64"
    /\ out.done
    /\ Len(arg.list) >= 4
    /\ out.left = out.right
    /\ out.left = Len(arg.list) - 1
    /\ out.index >= 0
    /\ arg.list[out.index + 1] = arg.val

----------------------------------------------------------------------------
(* Properties of the sequential reads of an opened file (SpecOpen) *)

\* C26: from construction on, the blocks returned by successive successful
\* sequential reads have consecutive ascending ids; a decoded block whose id
\* is not the current block's id plus one is rejected with an error, is not
\* returned, and does not become the current block.  Stated of the files
\* whose list header holds the supported version.
C26_ConsecutiveIds ==
    (phase = "opened" /\ arg.version = BlockListV1) =>
        /\ \A i \in 1 .. Len(readLog) - 1 :
              readLog[i + 1].block.id = readLog[i].block.id + 1
        /\ (readLog # <<>> => bl.curBlock = readLog[Len(readLog)].block)
        /\ (ret.op = "readNextBlock" /\ ret.err # NilErr => ret.block = NoBlock)

----------------------------------------------------------------------------
(* Properties of Reset (SpecReset) *)

\* C27: after a successful Reset the current block is unset and curOffset
\* equals initOffset, the first byte after the list header, and the next
\* sequential read returns the first block of the list (end-of-stream when
\* the list has no block), whatever sequence of reads and searches
\* preceded; Reset on a list object that holds no seeker fails.
C27_ResetRewinds ==
    ret.op = "Reset" =>
        IF bl.seeker
        THEN /\ ret.err = NilErr
             /\ GetCurBlock(bl) = NoBlock
             /\ bl.curOffset = bl.initOffset
             /\ Slice(store, bl.initOffset - blockListHeaderLen, bl.initOffset)
                   = PutUint32(BlockListV1) \o PutUint32(bl.paddedBlockSize)
             /\ \E r \in {readNextBlock(bl, store, pos)} :
                   IF written = <<>> THEN r.err = EOF /\ r.block = NoBlock
                   ELSE r.err = NilErr /\ r.block = written[1].block /\ r.block.id = 0
        ELSE ret.err # NilErr

\* a Reset after a linear search that had moved the cursor into the list
C27_Witness ==
    /\ phase = "reading"
    /\ ret.op = "Reset"
    /\ ret.err = NilErr
    /\ lin.op = "SearchLinear"
    /\ lin.rec # NoRec
    /\ lin.arg > written[1].rec[Len(written[1].rec)]
    /\ Len(written) >= 3

----------------------------------------------------------------------------
(* Properties of SearchLinear (SpecReset) *)

\* the indices (from 1) of the written blocks for which the comparator
\* returns 1 on the searched value
Hits(value) ==
    {i \in 1 .. Len(written) : BlockTestComparator(value, written[i].rec) = 1}

\* C28: SearchLinear first resets the reader, then reads the blocks in order
\* and returns the first block (lowest id) for which the comparator returns
\* 1; comparator results that are negative, 0 or greater than 1 never stop
\* the scan; when end-of-stream is reached without a hit it returns
\* not-found with a nil error.
C28_LinearFirstHit ==
    (phase = "reading" /\ ret.op = "SearchLinear") =>
        /\ ret.err = NilErr
        /\ \A i \in 1 .. Len(readLog) :
              readLog[i].block = written[i].block /\ readLog[i].block.id = i - 1
        /\ IF Hits(ret.arg) = {}
           THEN ret.rec = NoRec /\ eof /\ Len(readLog) = Len(written)
           ELSE /\ Len(readLog) \in Hits(ret.arg)
                /\ \A i \in Hits(ret.arg) : Len(readLog) <= i
                /\ ret.rec = written[Len(readLog)].rec
                /\ ~eof

\* the searched key is held by two blocks, and blocks in front of them make
\* the comparator return 2; the cursor was inside the list before the search
C28_Witness ==
    /\ phase = "reading"
    /\ ret.op = "SearchLinear"
    /\ \E i, j \in Hits(ret.arg) : i < j
    /\ Len(readLog) >= 2
    /\ ret.rec = written[Len(readLog)].rec

----------------------------------------------------------------------------
(* Properties of SearchBinary on lists that need not be sorted (SpecReset) *)

\* C29: in SearchBinary, a comparator result of 0 for the probed block ends
\* the search at once with not-found: no further block is read, even when
\* some other block of the list would make the comparator return 1.
C29_ZeroEndsSearch ==
    (phase = "reading" /\ ret.op = "SearchBinary") =>
        \A i \in 1 .. Len(ret.probes) :
           (/\ ret.probes[i] < Len(written)
            /\ BlockTestComparator(ret.arg, written[ret.probes[i] + 1].rec) = 0) =>
              /\ i = Len(ret.probes)
              /\ ret.rec = NoRec
              /\ ret.size = 0
              /\ ret.err = NilErr

\* the probed block has the searched key missing inside its range, and the
\* block behind it holds the key
C29_Witness ==
    /\ phase = "reading"
    /\ ret.op = "SearchBinary"
    /\ ret.probes # <<>>
    /\ ret.rec = NoRec
    /\ ret.probes[Len(ret.probes)] < Len(written)
    /\ BlockTestComparator(ret.arg, written[ret.probes[Len(ret.probes)] + 1].rec) = 0
    /\ Hits(ret.arg) # {}

----------------------------------------------------------------------------
(* Properties of DeserializeBlockV1 on arbitrary bytes (SpecBlock) *)

\* C30: DeserializeBlockV1 returns an error, and never a block or a crash,
\* whenever len(bytes) < 8, or paddedBlockSize > 0 and len(bytes) differs
\* from paddedBlockSize, or 8 + size > len(bytes), for every 32-bit value
\* of the size field read from the bytes; when it succeeds, the returned
\* data is exactly bytes [8, 8 + size).
C30_DecodeRejects ==
    (phase = "crafted" /\ out.op = "DeserializeBlockV1") =>
        /\ ((\/ Len(buf) < blockHeaderLen
             \/ (arg.p > 0 /\ Len(buf) # arg.p)
             \/ blockHeaderLen + Uint32(Slice(buf, blockNumLen, blockHeaderLen)) > Len(buf))
               => /\ out.err # NilErr
                  /\ out.err # Err("panic")
                  /\ out.block = NoBlock)
        /\ (out.err = NilErr =>
               out.block.data
                 = Slice(buf, blockHeaderLen,
                         blockHeaderLen + Uint32(Slice(buf, blockNumLen, blockHeaderLen))))

----------------------------------------------------------------------------
(* Decoding and the padding (SpecBlock) *)

\* the number of leading bytes of a padded block that hold its header and
\* its data: 8 + size, the size read from the bytes, or all of them
Meaningful(bytes) ==
    Min(Len(bytes), blockHeaderLen + Uint32(Slice(bytes, blockNumLen, blockHeaderLen)))

\* C31: decoding a padded block does not depend on the padding: a byte
\* string of length paddedBlockSize that agrees with the decoded one on bytes
\* [0, 8 + size) decodes to the same id, size and data, and so do two
\* serializations of the same block with different random padding.
C31_PaddingIgnored ==
    (arg.kind = "block" /\ arg.p >= blockHeaderLen /\ Len(buf) = arg.p) =>
        /\ \A pad \in [1 .. (arg.p - Meaningful(buf)) -> {0, 1, ByteMod - 1}] :
              DeserializeBlockV1(arg.p, Slice(buf, 0, Meaningful(buf)) \o pad)
                = DeserializeBlockV1(arg.p, buf)
        /\ \A r1, r2 \in 0 .. (MaxSeed + 2) :
              Serialize(arg.block, arg.p, r1).err = NilErr =>
                 DeserializeBlockV1(arg.p, Serialize(arg.block, arg.p, r1).serial)
                   = DeserializeBlockV1(arg.p, Serialize(arg.block, arg.p, r2).serial)

\* a decoded padded block with two bytes of padding or more behind its data
C31_Witness ==
    /\ phase = "block"
    /\ out.op = "DeserializeBlockV1"
    /\ out.err = NilErr
    /\ out.block.data # <<>>
    /\ arg.p >= Meaningful(buf) + 2
    /\ Serialize(arg.block, arg.p, 0).serial # Serialize(arg.block, arg.p, 1).serial

----------------------------------------------------------------------------
(* Properties of the window of an opened file (SpecOpen) *)

\* C32: on a padded list, GetTotalBlocks (and therefore SearchBinary) fails
\* with an error when endOffset is smaller than the post-header initOffset,
\* or when endOffset - initOffset is not a multiple of paddedBlockSize; it
\* never returns a rounded-down block count for an inconsistent window.
C32_InconsistentWindow ==
    (phase = "opened" /\ ret.op = "GetTotalBlocks" /\ IsBlockPadded(bl)) =>
        IF \/ bl.endOffset < bl.initOffset
           \/ (bl.endOffset - bl.initOffset) % bl.paddedBlockSize # 0
        THEN /\ ret.err # NilErr
             /\ ret.size = 0
             /\ \A v \in {0, 1} : /\ SearchBinary(bl, store, v).err # NilErr
                                   /\ SearchBinary(bl, store, v).probes = <<>>
        ELSE /\ ret.err = NilErr
             /\ ret.size * bl.paddedBlockSize = bl.endOffset - bl.initOffset

\* a window that ends inside the second block of the list
C32_Witness ==
    /\ phase = "opened"
    /\ ret.op = "GetTotalBlocks"
    /\ IsBlockPadded(bl)
    /\ bl.endOffset > bl.initOffset + bl.paddedBlockSize
    /\ bl.endOffset < bl.initOffset + 2 * bl.paddedBlockSize
    /\ ret.err # NilErr

----------------------------------------------------------------------------
(* Properties of refused writes (Spec) *)

\* C33: when a write on a padded writer fails with a padding violation,
\* nothing is written to the sink and the writer's current block, curOffset
\* and endOffset are unchanged; a successful write gets the id and the
\* on-disk offset given by the number of blocks written before it, whatever
\* calls were refused in between.
C33_RefusedWriteNoEffect ==
    [][ (/\ phase = "writing"
         /\ phase' = "writing"
         /\ ret'.op \in {"WriteBlockData", "WriteChunk"}) =>
           /\ (IsBlockPaddingError(ret'.err) =>
                  /\ IsBlockPadded(bl)
                  /\ store' = store
                  /\ bl' = bl
                  /\ written' = written)
           /\ (ret'.err = NilErr =>
                  /\ ret'.block.id = Len(written)
                  /\ Len(store') = bl'.curOffset
                  /\ (IsBlockPadded(bl) =>
                         /\ Len(store) = bl.initOffset + Len(written) * bl.paddedBlockSize
                         /\ Slice(store', Len(store), Len(store'))
                               = Serialize(ret'.block, bl.paddedBlockSize, rng).serial)) ]_vars

\* a chunk written after a refused write that followed a written block
C33_Witness ==
    /\ phase = "writing"
    /\ IsBlockPadded(bl)
    /\ ret.op = "WriteChunk"
    /\ ret.err = NilErr
    /\ pending.orig # <<>>
    /\ pending.start >= 1
    /\ Len(written) = pending.start + 1

----------------------------------------------------------------------------
(* Random reads and the sequential cursor (SpecReset) *)

\* C34: random reads do not disturb the sequential cursor: readBlockAt and
\* ReadBlockDataAt return with the list's current block and curOffset as
\* they were, and after any interleaving of them and of SearchBinary with
\* sequential reads on one padded reader, the blocks returned by the
\* sequential reads since the last Reset are the first blocks of the list in
\* order, and the cursor stands behind the last of them.
C34_RandomReadsKeepCursor ==
    (phase = "reading" /\ IsBlockPadded(bl)) =>
        /\ \A i \in 0 .. MaxSearchBlocks :
              /\ readBlockAt(bl, store, i).bl = bl
              /\ ReadBlockDataAt(bl, store, i).bl = bl
        /\ Len(readLog) <= Len(written)
        /\ \A i \in 1 .. Len(readLog) : readLog[i].block = written[i].block
        /\ GetCurBlock(bl) = IF readLog = <<>> THEN NoBlock
                             ELSE readLog[Len(readLog)].block
        /\ bl.curOffset = bl.initOffset + Len(readLog) * bl.paddedBlockSize
        /\ pos = bl.curOffset

\* a random read of the second block, made when the sequential reads had
\* returned three blocks and no search had moved the cursor
C34_Witness ==
    /\ phase = "reading"
    /\ IsBlockPadded(bl)
    /\ ret.op = "readBlockAt"
    /\ ret.err = NilErr
    /\ ret.arg = 1
    /\ Len(readLog) = 3
    /\ lin.op = "none"

\* C35: a reader stays inside its byte window [initOffset, endOffset): after
\* any sequence of sequential reads, initOffset <= curOffset <= endOffset,
\* and a sequential read never returns a block that starts at or beyond
\* endOffset, even when the store holds more bytes after endOffset.  Stated
\* of the files of the supported version and the windows that do not end in
\* front of the first block.
C35_InsideWindow ==
    (phase = "opened" /\ arg.version = BlockListV1 /\ bl.initOffset <= bl.endOffset) =>
        /\ bl.initOffset <= bl.curOffset
        /\ bl.curOffset <= bl.endOffset
        /\ (ret.op = "readNextBlock" /\ ret.err = NilErr =>
               bl.curOffset - (IF IsBlockPadded(bl) THEN bl.paddedBlockSize
                               ELSE blockHeaderLen + ret.block.size) < bl.endOffset)

----------------------------------------------------------------------------
(* The block indices SearchBinary asks for (SpecSearch) *)

\* C36: on a padded list with n >= 0 blocks SearchBinary only requests block
\* indices inside [0, n - 1]; on a padded list with zero blocks it requests
\* no block and returns not-found without error.
C36_ProbesInsideList ==
    (phase = "reading" /\ ret.op = "SearchBinary" /\ IsBlockPadded(bl)) =>
        /\ \A i \in 1 .. Len(ret.probes) : ret.probes[i] < GetTotalBlocks(bl).n
        /\ (GetTotalBlocks(bl).n = 0 =>
               ret.probes = <<>> /\ ret.err = NilErr /\ ret.rec = NoRec)

----------------------------------------------------------------------------
(* The loop of SearchBinary under any comparator, one iteration per step   *)
(* (SpecBinary).  The list has n valid padded blocks and the file ends     *)
(* with it, so ReadBlockDataAt(mid) succeeds exactly when mid < n; comp    *)
(* is the answer of the caller's comparator for the block read.            *)

\* the body of the loop of SearchBinary, from the result of
\* ReadBlockDataAt(mid) on
searchBinaryBody(n, left, right, mid, comp) ==
    IF mid >= n THEN [done |-> TRUE, failed |-> TRUE, left |-> left, right |-> right]
    ELSE IF comp = 1 \/ comp = 0 \/ left = right
    THEN [done |-> TRUE, failed |-> FALSE, left |-> left, right |-> right]
    ELSE IF comp < 0
    THEN [done |-> FALSE, failed |-> FALSE, left |-> left,
          right |-> IF mid > left THEN U32(mid - 1) ELSE left]
    ELSE [done |-> FALSE, failed |-> FALSE,
          left |-> IF mid < right THEN U32(mid + 1) ELSE right, right |-> right]

\* a reader on a padded list of n blocks
InitBinary ==
    /\ store = <<>>
    /\ pos = 0
    /\ phase = "binary"
    /\ bl = NilList
    /\ rng = 0
    /\ written = <<>>
    /\ pending = NoPending
    /\ readLog = <<>>
    /\ eof = FALSE
    /\ ret = RetBase
    /\ lin = RetBase
    /\ \E n \in (0 .. MaxSearchBlocks + 1) \cup {Uint32Mod \div 2, Uint32Mod \div 2 + 2} :
          arg = [kind |-> "binary", n |-> n]
    /\ buf = <<>>
    /\ out = [op |-> "none", done |-> FALSE, failed |-> FALSE, left |-> 0, right |-> 0]

\* the call, up to the loop: left := 0, right := GetTotalBlocks() - 1
SearchBinaryEnter ==
    /\ phase = "binary"
    /\ out.op = "none"
    /\ out' = [out EXCEPT !.op = "SearchBinary", !.left = 0, !.right = U32(arg.n - 1)]
    /\ UNCHANGED <<store, pos, phase, bl, rng, written, pending, readLog, eof, ret, lin,
                   arg, buf>>

\* one iteration of the loop: mid := (left + right) / 2, the read, the
\* comparator's answer comp
SearchBinaryIterate(comp) ==
    /\ phase = "binary"
    /\ out.op = "SearchBinary"
    /\ ~out.done
    /\ \E r \in {searchBinaryBody(arg.n, out.left, out.right,
                                   U32(out.left + out.right) \div 2, comp)} :
          out' = [out EXCEPT !.done = r.done, !.failed = r.failed, !.left = r.left,
                             !.right = r.right]
    /\ UNCHANGED <<store, pos, phase, bl, rng, written, pending, readLog, eof, ret, lin,
                   arg, buf>>

NextBinary ==
    \/ SearchBinaryEnter
    \/ \E comp \in {-1, 0, 1, 2} : SearchBinaryIterate(comp)

\* the call runs on: a started iteration is followed by the next one
SpecBinary == InitBinary /\ [][NextBinary]_vars /\ WF_vars(NextBinary)

----------------------------------------------------------------------------
(* Termination of SearchBinary (SpecBinary) *)

\* C37: SearchBinary terminates for every comparator: every loop iteration
\* either returns, or strictly shrinks the interval [left, right], or makes
\* left equal right so that the following iteration returns.
C37_BinaryTerminates ==
    /\ [][ (out.op = "SearchBinary" /\ ~out.done) =>
             \/ out'.done
             \/ out'.left = out'.right
             \/ /\ out.left <= out'.left
                /\ out'.right <= out.right
                /\ out'.right - out'.left < out.right - out.left ]_vars
    /\ <>[](out.done)

----------------------------------------------------------------------------
(* End of stream in unpadded mode (SpecOpen) *)

\* C38: in unpadded mode a sequential read reports end-of-stream only when
\* the source is exhausted exactly at a block boundary: the read that
\* returns io.EOF consumed nothing, the file ending where the last block read
\* ended; a file that ends after a block header and before that block's data
\* gives an error other than io.EOF.
C38_EOFOnlyAtBoundary ==
    (/\ phase = "opened"
     /\ arg.version = BlockListV1
     /\ ~IsBlockPadded(bl)
     /\ ret.op = "readNextBlock"
     /\ ret.err = EOF) =>
        /\ pos = arg.initOffset + blockListHeaderLen
                    + Len(readLog) * (blockHeaderLen + 1)
        /\ Len(store) <= pos

=============================================================================
